---- MODULE Spec2Model ----
(***************************************************************************)
(* A model of the Poker Camp game engine (src/engine.py): the Kuhn-poker   *)
(* round state machine (RoundState / TerminalState), the chance model      *)
(* (KuhnDeck), the per-bot protocol exchange (Player.query) and the match  *)
(* loop (Match.run_round, Match.run).                                      *)
(*                                                                         *)
(* Python lists indexed by seat are functions over Seats = {0, 1}; other   *)
(* lists are sequences.  None is the string "None" where the other values  *)
(* are strings, the record NoneState where they are records and NoneCard   *)
(* where they are cards.                                                   *)
(***************************************************************************)
EXTENDS Integers, Sequences, FiniteSets, TLC

VARIABLES
    round_state,              \* run_round: the current RoundState or TerminalState
    action,                   \* run_round: the value the last query returned
    player,                   \* the two Player objects, by player number (1, 2)
    players,                  \* Match.run: the seat order, seat -> player number
    log,                      \* Match.log, the game log (transcript)
    round_num,                \* Match.run: the round being played
    pc,                       \* the position of the control thread
    exception,                \* the exception that left the control thread, or "None"
    duplicate_file_iterator,  \* KuhnDeck.duplicate_file_iterator: the lines not yet read
    shuffles,                 \* the state of random: the shuffles made since random.seed
    config,                   \* the run's configuration (config.py, command line)
    twin,                     \* a second engine run (two-run comparison only)
    kuhn_deck,                \* a KuhnDeck and the cards deal() returned (deck model only)
    files,                    \* the raw log files Match.run writes at teardown
    bot                       \* the bots' subprocesses: Runner, socket and stdout pipe

vars == <<round_state, action, player, players, log, round_num, pc, exception,
          duplicate_file_iterator, shuffles, config, twin, kuhn_deck, files, bot>>

(***************************************************************************)
(* Program constants and the bounds of the model.                          *)
(***************************************************************************)
ANTE == 1
BET_SIZE == 1
STARTING_STACK == 2

\* The largest card value a line of the duplicate file holds.
MaxCard == 2

Seats == {0, 1}
Pair(a, b) == [s \in Seats |-> IF s = 0 THEN a ELSE b]

UpAction == "UpAction"
DownAction == "DownAction"

NoneState == [kind |-> "None"]

\* None where the other values are cards (a hand hidden by visible_hands).
NoneCard == -1

(***************************************************************************)
(* KuhnDeck.                                                               *)
(***************************************************************************)
CardValues == 0 .. MaxCard

\* use_default_deck: [Card(0), Card(1), Card(2)] in any order random.shuffle
\* can leave them in.
DefaultDecks ==
    {c \in [1..3 -> 0..2] : \A i, j \in 1..3 : i # j => c[i] # c[j]}

\* What a line of the duplicate file parses to: the file is an input of the
\* engine, so any comma-separated sequence of integers can stand on a line.
DuplicateLines == UNION {[1..n -> CardValues] : n \in 2..3}

\* KuhnDeck.deal: the card at index, and the deck with index advanced; a
\* deck with no card left raises ValueError.
DeckCanDeal(deck) == deck.index < Len(deck.cards)
DeckCard(deck) == deck.cards[deck.index + 1]
\* Mutant: deal returns the card and leaves the index where it was.
DeckAfterDealStuck(deck) == deck
DeckAfterDeal(deck) == [deck EXCEPT !.index = @ + 1]

NewDeck(cards) == [cards |-> cards, index |-> 0]

(***************************************************************************)
(* RoundState and TerminalState.                                           *)
(***************************************************************************)
MkRoundState(turn_number, street, pips, stacks, hands, deck, action_history, previous_state) ==
    [kind |-> "RoundState", turn_number |-> turn_number, street |-> street,
     pips |-> pips, stacks |-> stacks, hands |-> hands, deck |-> deck,
     action_history |-> action_history, previous_state |-> previous_state]

TerminalState(deltas, previous_state) ==
    [kind |-> "TerminalState", deltas |-> deltas, previous_state |-> previous_state]

IsRoundState(s) == s.kind = "RoundState"
IsTerminalState(s) == s.kind = "TerminalState"

\* RoundState.new, given the deck KuhnDeck(duplicate_file) built: two deals.
RoundStateNew(deck) ==
    LET d1 == DeckAfterDeal(deck)
        d2 == DeckAfterDeal(d1)
    IN  MkRoundState(0, 0, Pair(ANTE, ANTE),
                     Pair(STARTING_STACK - ANTE, STARTING_STACK - ANTE),
                     Pair(DeckCard(deck), DeckCard(d1)), d2, << >>, NoneState)

\* Mutant: the winner is paid the whole pot, its own chips included.
ShowdownWholePot(self) ==
    LET winner == IF self.hands[0] > self.hands[1] THEN 0 ELSE 1
        loser == 1 - winner
    IN  TerminalState([s \in Seats |-> IF s = winner THEN self.pips[0] + self.pips[1]
                                                      ELSE -self.pips[loser]],
                      self)

\* Mutant: the comparison of the hands is reversed.
ShowdownLowWins(self) ==
    LET winner == IF self.hands[0] < self.hands[1] THEN 0 ELSE 1
        loser == 1 - winner
    IN  TerminalState([s \in Seats |-> IF s = winner THEN self.pips[loser]
                                                      ELSE -self.pips[loser]],
                      self)

\* RoundState.showdown
Showdown(self) ==
    LET winner == IF self.hands[0] > self.hands[1] THEN 0 ELSE 1
        loser == 1 - winner
    IN  TerminalState([s \in Seats |-> IF s = winner THEN self.pips[loser]
                                                      ELSE -self.pips[loser]],
                      self)

\* Mutant: every hand is returned.
VisibleHandsAll(self, seat) == self.hands

\* RoundState.visible_hands
VisibleHands(self, seat) ==
    [s \in DOMAIN self.hands |-> IF s = seat THEN self.hands[seat] ELSE NoneCard]

\* Mutant: a seat that checked and faces a bet may only fold.
LegalActionsFoldOnly(self) ==
    IF self.turn_number = 2 THEN {DownAction} ELSE {UpAction, DownAction}

\* RoundState.legal_actions
LegalActions(self) == {UpAction, DownAction}

\* RoundState.proceed_street
ProceedStreet(self) == Showdown(self)

\* Mutant: the successor is linked to the parent's parent.
SuccessorUnlinked(self, a, pips, stacks) ==
    MkRoundState(self.turn_number + 1, self.street, pips, stacks, self.hands,
                 self.deck, Append(self.action_history, a), self.previous_state)

\* Mutant: the successor is on the next street.
SuccessorNextStreet(self, a, pips, stacks) ==
    MkRoundState(self.turn_number + 1, self.street + 1, pips, stacks, self.hands,
                 self.deck, Append(self.action_history, a), self)

\* The successor node every branch of proceed builds.
Successor(self, a, pips, stacks) ==
    MkRoundState(self.turn_number + 1, self.street, pips, stacks, self.hands,
                 self.deck, Append(self.action_history, a), self)

\* Mutant: the bet is added to the other seat's pips.
BetPipsInactive(self, active) == [self.pips EXCEPT ![1 - active] = @ + BET_SIZE]

\* The pips and stacks after the active seat bets or calls.
BetPips(self, active) == [self.pips EXCEPT ![active] = @ + BET_SIZE]
BetStacks(self, active) == [self.stacks EXCEPT ![active] = @ - BET_SIZE]
CallPips(self, active) == [self.pips EXCEPT ![active] = self.pips[1 - active]]
\* Mutant: the call is not taken from the stack.
CallStacksUnchanged(self, active) == self.stacks
CallStacks(self, active) ==
    [self.stacks EXCEPT ![active] = @ - (self.pips[1 - active] - self.pips[active])]

\* Mutant: a fold forfeits the other seat's pips instead of the folder's.
ProceedDownFoldOther(self) ==
    LET next == Successor(self, DownAction, self.pips, self.stacks)
    IN  IF self.turn_number = 0 THEN next
        ELSE IF self.turn_number = 1
             THEN IF self.pips[0] = self.pips[1]
                  THEN ProceedStreet(next)
                  ELSE TerminalState(Pair(self.pips[0], -self.pips[0]), next)
             ELSE TerminalState(Pair(-self.pips[1], self.pips[1]), next)

\* Mutant: the seat that folds after check and bet pays the bettor's pips.
ProceedDownLateFoldPaysBet(self) ==
    LET next == Successor(self, DownAction, self.pips, self.stacks)
    IN  IF self.turn_number = 0 THEN next
        ELSE IF self.turn_number = 1
             THEN IF self.pips[0] = self.pips[1]
                  THEN ProceedStreet(next)
                  ELSE TerminalState(Pair(self.pips[1], -self.pips[1]), next)
             ELSE TerminalState(Pair(-self.pips[1], self.pips[1]), next)

\* RoundState.proceed with DownAction
ProceedDown(self) ==
    LET next == Successor(self, DownAction, self.pips, self.stacks)
    IN  IF self.turn_number = 0 THEN next
        ELSE IF self.turn_number = 1
             THEN IF self.pips[0] = self.pips[1]
                  THEN ProceedStreet(next)
                  ELSE TerminalState(Pair(self.pips[1], -self.pips[1]), next)
             ELSE IF self.turn_number = 2
                  THEN TerminalState(Pair(-self.pips[0], self.pips[0]), next)
                  ELSE [kind |-> "AssertionError"]

\* Mutant: a call does not resolve the street.
ProceedUpNoShowdown(self) ==
    LET active == self.turn_number % 2
    IN  IF self.pips[0] = self.pips[1]
        THEN Successor(self, UpAction, BetPips(self, active), BetStacks(self, active))
        ELSE Successor(self, UpAction, CallPips(self, active), CallStacks(self, active))

\* RoundState.proceed with UpAction
ProceedUp(self) ==
    LET active == self.turn_number % 2
    IN  IF self.pips[0] = self.pips[1]
        THEN Successor(self, UpAction, BetPips(self, active), BetStacks(self, active))
        ELSE ProceedStreet(Successor(self, UpAction, CallPips(self, active),
                                     CallStacks(self, active)))

\* RoundState.proceed: an action that is neither falls off the end (None).
Proceed(self, a) ==
    IF a = DownAction THEN ProceedDown(self)
    ELSE IF a = UpAction THEN ProceedUp(self)
    ELSE NoneState

(***************************************************************************)
(* The wire protocol: message(type, **kwargs), and what a reply line of a  *)
(* bot can be.                                                             *)
(***************************************************************************)
TimeMessage(t) == [type |-> "time", time |-> t]
HelloMessage == [type |-> "hello"]
GoodbyeMessage == [type |-> "goodbye"]
InfoMessage(seat, hands, new_game) ==
    [type |-> "info", seat |-> seat, hands |-> hands, new_game |-> new_game]
ActionMessage(code, seat) == [type |-> "action", verb |-> code, seat |-> seat]
PayoffMessage(payoff) == [type |-> "payoff", payoff |-> payoff]

\* Player.__init__: self.messages = [message('time', time=30.)]
InitialMessages == <<TimeMessage(30)>>

\* One element of a reply's JSON array.  obj: it is a JSON object; type: its
\* 'type' field; act: its 'action' field ("dict" for an object, "scalar" for
\* any other JSON value); verb: the 'verb' field of that object.  "absent"
\* is a missing key.
Item(obj, type, act, verb) == [obj |-> obj, type |-> type, act |-> act, verb |-> verb]
ItemScalar == Item(FALSE, "absent", "absent", "absent")
ItemNoType == Item(TRUE, "absent", "absent", "absent")
ItemHello == Item(TRUE, "hello", "absent", "absent")
ItemNoAction == Item(TRUE, "action", "absent", "absent")
ItemActionScalar == Item(TRUE, "action", "scalar", "absent")
ItemNoVerb == Item(TRUE, "action", "dict", "absent")
ItemU == Item(TRUE, "action", "dict", "U")
ItemD == Item(TRUE, "action", "dict", "D")
ItemR == Item(TRUE, "action", "dict", "R")

Items == {ItemScalar, ItemNoType, ItemHello, ItemNoAction, ItemActionScalar,
          ItemNoVerb, ItemU, ItemD, ItemR}

\* A reply line after strip().  form: "empty"; "text" (it starts with neither
\* '[' nor '{'); "badjson" (it starts with one of them and json.loads rejects
\* it); "object" and "array" (json.loads accepts it; items are the elements of
\* the list query iterates over, a single object being wrapped in a list).
ReplyLine(form, items) == [form |-> form, items |-> items]
ReplyEmpty == ReplyLine("empty", << >>)
ReplyText == ReplyLine("text", << >>)
ReplyBadJson == ReplyLine("badjson", << >>)
ReplyObject(item) == ReplyLine("object", <<item>>)
ReplyArray(items) == ReplyLine("array", items)

Replies ==
    {ReplyEmpty, ReplyText, ReplyBadJson, ReplyArray(<< >>)}
    \cup {ReplyObject(i) : i \in Items}
    \cup {ReplyArray(<<ItemU, i>>) : i \in {ItemD, ItemR, ItemHello, ItemNoVerb, ItemScalar}}

(***************************************************************************)
(* Player: one bot's process, socket, clock, bankroll and buffers.         *)
(***************************************************************************)
\* The game clock a Player starts with, in ticks of the model's time unit.
STARTING_GAME_CLOCK == 2

\* The latencies (write-flush to read-complete) an exchange is measured at.
Latencies == {0, 1, STARTING_GAME_CLOCK, STARTING_GAME_CLOCK + 1}

\* Player.__init__
NewPlayer(name) ==
    [name |-> name,
     game_clock |-> STARTING_GAME_CLOCK,
     bankroll |-> 0,
     commands |-> FALSE,         \* commands is not None
     bot_subprocess |-> FALSE,   \* bot_subprocess is not None
     messages |-> InitialMessages,
     socketfile |-> FALSE,       \* socketfile is not None
     message_log |-> << >>,
     response_log |-> << >>,
     latency |-> 0,              \* history: the latency charged so far (line 466)
     appended |-> << >>,         \* history: every message append was called with
     build |-> "None",           \* history: how build() went
     run |-> "None",             \* history: how run() went, when it launched the bot
     process |-> "None",         \* history: the launched subprocess ("running", "killed", "reaped")
     steps |-> << >>]            \* history: the steps stop() has taken

\* Player.append
PlayerAppend(self, msg) ==
    [self EXCEPT !.messages = Append(@, msg), !.appended = Append(@, msg)]

\* What the socket does in one exchange of query: the write (and flush)
\* succeeds or raises; the readline returns a line after `elapsed`, or raises.
Exchange(outcome, reply, elapsed) ==
    [outcome |-> outcome, reply |-> reply, elapsed |-> elapsed]

IOFaults == {"write_OSError", "write_timeout", "read_OSError", "read_timeout"}

ExchangesOver(replies, latencies) ==
    {Exchange(f, ReplyEmpty, 0) : f \in IOFaults}
    \cup {Exchange("reply", r, e) : r \in replies, e \in latencies}

\* Mutant: a bad verb sets the action back to None.
RECURSIVE ParseItemsBadVerbClears(_, _)
ParseItemsBadVerbClears(items, selected) ==
    IF items = << >> THEN selected
    ELSE LET item == Head(items)
             rest == Tail(items)
         IN  IF ~item.obj THEN "TypeError"
             ELSE IF item.type = "absent" THEN ParseItemsBadVerbClears(rest, selected)
             ELSE IF item.type # "action" THEN ParseItemsBadVerbClears(rest, selected)
             ELSE IF item.act = "absent" THEN ParseItemsBadVerbClears(rest, selected)
             ELSE IF item.act # "dict" THEN "TypeError"
             ELSE IF item.verb = "absent" THEN ParseItemsBadVerbClears(rest, selected)
             ELSE IF item.verb = "U" THEN ParseItemsBadVerbClears(rest, UpAction)
             ELSE IF item.verb = "D" THEN ParseItemsBadVerbClears(rest, DownAction)
             ELSE ParseItemsBadVerbClears(rest, "None")

\* Lines 478-493 of query: the loop over the messages of a reply.  The result
\* is the action selected, "None", or "TypeError" when subscripting a value
\* that is no JSON object raises (KeyError alone is caught in the loop).
RECURSIVE ParseItems(_, _)
ParseItems(items, selected) ==
    IF items = << >> THEN selected
    ELSE LET item == Head(items)
             rest == Tail(items)
         IN  IF ~item.obj THEN "TypeError"
             ELSE IF item.type = "absent" THEN ParseItems(rest, selected)
             ELSE IF item.type # "action" THEN ParseItems(rest, selected)
             ELSE IF item.act = "absent" THEN ParseItems(rest, selected)
             ELSE IF item.act # "dict" THEN "TypeError"
             ELSE IF item.verb = "absent" THEN ParseItems(rest, selected)
             ELSE IF item.verb = "U" THEN ParseItems(rest, UpAction)
             ELSE IF item.verb = "D" THEN ParseItems(rest, DownAction)
             ELSE ParseItems(rest, selected)

\* Lines 470-498 of query: the action a reply line decodes to, "None",
\* "ValueError" (json.loads rejects the line) or "TypeError".
ParseResponse(response) ==
    IF response.form \in {"object", "array"} THEN ParseItems(response.items, "None")
    ELSE IF response.form = "badjson" THEN "ValueError"
    ELSE "None"

\* Line 446 of query
QueryLegalActions(round_state_arg) ==
    IF IsRoundState(round_state_arg) THEN LegalActions(round_state_arg) ELSE {}

\* Line 519 of query: the fallback action.
Fallback(legal_actions) ==
    IF DownAction \in legal_actions THEN DownAction ELSE UpAction

\* Mutant: the game clock is not looked at.
QueryGuardNoClock(self, wait) == self.socketfile

\* Mutant: `or wait` for `or not wait`.
QueryGuardOrWait(self, wait) == self.socketfile /\ (self.game_clock > 0 \/ wait)

\* Line 447 of query: whether the exchange is attempted.
QueryGuard(self, wait) == self.socketfile /\ (self.game_clock > 0 \/ ~wait)

\* Lines 450-456 of query: the packet, and the Player after it is logged
\* and the queue is cut back to the time message.  The clock is counted in
\* ticks that round(game_clock, 3) keeps.
Packet(self) == <<TimeMessage(self.game_clock)>> \o Tail(self.messages)
\* Mutant: the queue is not cut back (no del self.messages[1:]).
AfterPacketKeepsQueue(self) ==
    [self EXCEPT !.messages = Packet(self),
                 !.message_log = Append(@, Packet(self))]
AfterPacket(self) ==
    [self EXCEPT !.messages = <<TimeMessage(self.game_clock)>>,
                 !.message_log = Append(@, Packet(self))]

\* The game log entries query makes.
LogLine(text, name) == [text |-> text, name |-> name]

\* game_log = None (stop's call of query).  Both None and the empty list
\* fail `if game_log:`; Match.log is never empty (line 553), so the empty
\* sequence stands for None.
NoGameLog == << >>

\* The result of a call of query: the Player and the game log after it, and
\* the value returned, or the exception that leaves query.
QueryResult(self, game_log, ret, raised) ==
    [self |-> self, log |-> game_log, ret |-> ret, raised |-> raised]

\* Mutant: the game clock is left where the charge put it.
OnSocketTimeoutNoClamp(self, game_log, legal_actions) ==
    IF game_log = NoGameLog
    THEN QueryResult(self, game_log, "None", "AttributeError")
    ELSE QueryResult(self,
                     Append(game_log, LogLine("ran out of time", self.name)),
                     Fallback(legal_actions), "None")

\* Lines 506-510 of query: except socket.timeout.  game_log is None when stop
\* calls query, and None has no append.
OnSocketTimeout(self, game_log, legal_actions) ==
    IF game_log = NoGameLog
    THEN QueryResult(self, game_log, "None", "AttributeError")
    ELSE QueryResult([self EXCEPT !.game_clock = 0],
                     Append(game_log, LogLine("ran out of time", self.name)),
                     Fallback(legal_actions), "None")

\* Mutant: the game clock is left as it is after an OSError.
OnOSErrorKeepsClock(self, game_log, legal_actions) ==
    QueryResult(self,
                IF game_log # NoGameLog
                THEN Append(game_log, LogLine("disconnected", self.name))
                ELSE game_log,
                Fallback(legal_actions), "None")

\* Lines 511-516 of query: except OSError.
OnOSError(self, game_log, legal_actions) ==
    QueryResult([self EXCEPT !.game_clock = 0],
                IF game_log # NoGameLog
                THEN Append(game_log, LogLine("disconnected", self.name))
                ELSE game_log,
                Fallback(legal_actions), "None")

\* Mutant: the latency is charged whether or not the clock is enforced.
ChargedAlways(self, elapsed, enforce) ==
    [self EXCEPT !.game_clock = @ - elapsed, !.latency = @ + elapsed]

\* Lines 465-466 of query: the clock after the exchange is charged.
Charged(self, elapsed, enforce) ==
    IF enforce
    THEN [self EXCEPT !.game_clock = @ - elapsed, !.latency = @ + elapsed]
    ELSE self

\* Mutant: the ValueError of json.loads is not caught.
DecideValueErrorRaised(self, game_log, legal_actions, decoded) ==
    IF decoded \in {"TypeError", "ValueError"}
    THEN QueryResult(self, game_log, "None", decoded)
    ELSE IF decoded \in legal_actions
    THEN QueryResult(self, game_log, decoded, "None")
    ELSE QueryResult(self, Append(game_log, LogLine("did not respond", self.name)),
                     Fallback(legal_actions), "None")

\* Lines 500-505 and 517-519 of query: from the decoded action to the result.
Decide(self, game_log, legal_actions, decoded) ==
    IF decoded = "TypeError"
    THEN QueryResult(self, game_log, "None", "TypeError")
    ELSE IF decoded = "ValueError"
    THEN QueryResult(self, Append(game_log, LogLine("misformatted", self.name)),
                     Fallback(legal_actions), "None")
    ELSE IF decoded \in legal_actions
    THEN QueryResult(self, game_log, decoded, "None")
    ELSE IF decoded = "None"
    THEN QueryResult(self, Append(game_log, LogLine("did not respond", self.name)),
                     Fallback(legal_actions), "None")
    ELSE QueryResult(self, Append(game_log, LogLine("attempted illegal " \o decoded, self.name)),
                     Fallback(legal_actions), "None")

\* Lines 462-505 of query: the reply is read, logged, charged and decoded.
OnReply(self, game_log, legal_actions, io, enforce) ==
    LET logged == [self EXCEPT !.response_log = Append(@, io.reply)]
        charged == Charged(logged, io.elapsed, enforce)
    IN  IF charged.game_clock <= 0
        THEN OnSocketTimeout(charged, game_log, legal_actions)
        ELSE Decide(charged, game_log, legal_actions, ParseResponse(io.reply))

\* Player.query(round_state, game_log, wait=wait), with the socket behaving
\* as io says.
Query(self, round_state_arg, game_log, wait, io, enforce) ==
    LET legal_actions == QueryLegalActions(round_state_arg)
        sent == AfterPacket(self)
    IN  IF ~QueryGuard(self, wait)
        THEN QueryResult(self, game_log, Fallback(legal_actions), "None")
        ELSE IF io.outcome = "write_OSError" THEN OnOSError(sent, game_log, legal_actions)
        ELSE IF io.outcome = "write_timeout" THEN OnSocketTimeout(sent, game_log, legal_actions)
        ELSE IF ~wait THEN QueryResult(sent, game_log, "None", "None")
        ELSE IF io.outcome = "read_OSError" THEN OnOSError(sent, game_log, legal_actions)
        ELSE IF io.outcome = "read_timeout" THEN OnSocketTimeout(sent, game_log, legal_actions)
        ELSE OnReply(sent, game_log, legal_actions, io, enforce)

(***************************************************************************)
(* The state of a run that is not in use: a specification that exercises   *)
(* one component alone leaves the rest at these values.                    *)
(***************************************************************************)
\* The rounds of a match (config.py, -n): the largest number the model
\* plays; a configuration may ask for fewer.
NUM_ROUNDS == 2

Config(enforce, switch_seats, duplicate_file) ==
    [ENFORCE_GAME_CLOCK |-> enforce, switch_seats |-> switch_seats,
     duplicate_file |-> duplicate_file, NUM_ROUNDS |-> NUM_ROUNDS]

ClosedIterator == [open |-> FALSE, lines |-> << >>]

NoTwin == [used |-> FALSE]

\* The variables of the deck, teardown and subprocess models where they are
\* not in use.
NoDeck == [used |-> FALSE]
NoFiles == [written |-> FALSE]
NoBot == [used |-> FALSE]

(***************************************************************************)
(* SpecRound: the round state machine alone.  A round starts from          *)
(* RoundState.new over any deck KuhnDeck can build, and every legal action *)
(* is applied with proceed until the round is terminal.                    *)
(***************************************************************************)
RoundDecks == DefaultDecks \cup DuplicateLines

InitRound ==
    /\ \E cards \in RoundDecks : round_state = RoundStateNew(NewDeck(cards))
    /\ action = "None"
    /\ player = [p \in {1, 2} |-> NewPlayer(p)]
    /\ players = Pair(1, 2)
    /\ log = << >>
    /\ round_num = 1
    /\ pc = "round"
    /\ exception = "None"
    /\ duplicate_file_iterator = ClosedIterator
    /\ shuffles = 0
    /\ config = Config(TRUE, TRUE, FALSE)
    /\ twin = NoTwin
    /\ kuhn_deck = NoDeck
    /\ files = NoFiles
    /\ bot = NoBot

\* round_state = round_state.proceed(action), for a legal action.
ProceedStep(a) ==
    /\ pc = "round"
    /\ IsRoundState(round_state)
    /\ a \in LegalActions(round_state)
    /\ round_state' = Proceed(round_state, a)
    /\ action' = a
    /\ UNCHANGED <<player, players, log, round_num, pc, exception,
                   duplicate_file_iterator, shuffles, config, twin,
                   kuhn_deck, files, bot>>

NextRound == \E a \in {UpAction, DownAction} : ProceedStep(a)

SpecRound == InitRound /\ [][NextRound]_vars

(***************************************************************************)
(* Claims about the round state machine (checked under SpecRound).         *)
(***************************************************************************)
\* The deltas of terminal node t are those of a showdown over the hands and
\* pips of s: the seat with the higher card is paid the other seat's pips.
ShowdownOver(t, s) ==
    /\ s.pips[0] = s.pips[1]
    /\ \A w \in Seats :
          s.hands[w] > s.hands[1 - w] =>
              /\ t.deltas[w] = s.pips[1 - w]
              /\ t.deltas[1 - w] = -s.pips[1 - w]

\* C2: every TerminalState reachable from RoundState.new by proceed calls
\* has deltas that sum to zero.
C2_ZeroSum ==
    IsTerminalState(round_state) =>
        round_state.deltas[0] + round_state.deltas[1] = 0

C2_Witness ==
    /\ IsTerminalState(round_state)
    /\ round_state.deltas[0] = ANTE + BET_SIZE
    /\ round_state.deltas[1] = -(ANTE + BET_SIZE)

\* C3: every reachable RoundState has a legal action, each legal action has
\* a successor node, and the round is terminal after at least 2 and at most
\* 3 actions: no RoundState has turn_number above 2.
C3_LegalAndBounded ==
    /\ round_state.kind \in {"RoundState", "TerminalState"}
    /\ IsRoundState(round_state) =>
          /\ LegalActions(round_state) # {}
          /\ \A a \in LegalActions(round_state) :
                Proceed(round_state, a).kind \in {"RoundState", "TerminalState"}
          /\ round_state.turn_number <= 2
          /\ Len(round_state.action_history) = round_state.turn_number
    /\ IsTerminalState(round_state) =>
          Len(round_state.previous_state.action_history) \in 2..3

C3_Witness ==
    /\ IsTerminalState(round_state)
    /\ Len(round_state.previous_state.action_history) = 3

\* C7: proceed with DownAction.  At turn 0 the successor is a RoundState
\* with the same pips and stacks; later it is a TerminalState: a showdown
\* when the pips are equal, else a fold in which the folding seat loses its
\* own pips to the other seat.
C7_PassiveAction ==
    [][(IsRoundState(round_state) /\ round_state' # round_state
            /\ action' = DownAction) =>
        LET s == round_state
            t == round_state'
            active == s.turn_number % 2
        IN  IF s.turn_number = 0
            THEN /\ IsRoundState(t)
                 /\ t.pips = s.pips
                 /\ t.stacks = s.stacks
            ELSE /\ IsTerminalState(t)
                 /\ s.pips[0] = s.pips[1] => ShowdownOver(t, s)
                 /\ s.pips[0] # s.pips[1] =>
                       /\ t.deltas[active] = -s.pips[active]
                       /\ t.deltas[1 - active] = s.pips[active]]_vars

C7_Witness ==
    /\ IsTerminalState(round_state)
    /\ action = DownAction
    /\ round_state.previous_state.pips[0] # round_state.previous_state.pips[1]
    /\ round_state.previous_state.turn_number = 3

\* C8: proceed with UpAction.  With equal pips the successor is a RoundState
\* in which only the active seat's pips grew, and its stack shrank, by
\* BET_SIZE; with unequal pips the active seat's pips are made equal to the
\* other seat's, its stack shrinks by the difference, and the result is the
\* showdown TerminalState.
C8_AggressiveAction ==
    [][(IsRoundState(round_state) /\ round_state' # round_state
            /\ action' = UpAction) =>
        LET s == round_state
            t == round_state'
            active == s.turn_number % 2
            inactive == 1 - active
        IN  IF s.pips[0] = s.pips[1]
            THEN /\ IsRoundState(t)
                 /\ t.pips[active] = s.pips[active] + BET_SIZE
                 /\ t.stacks[active] = s.stacks[active] - BET_SIZE
                 /\ t.pips[inactive] = s.pips[inactive]
                 /\ t.stacks[inactive] = s.stacks[inactive]
            ELSE /\ IsTerminalState(t)
                 /\ t.previous_state.pips[active] = s.pips[inactive]
                 /\ t.previous_state.pips[inactive] = s.pips[inactive]
                 /\ t.previous_state.stacks[active] =
                        s.stacks[active] - (s.pips[inactive] - s.pips[active])
                 /\ t.previous_state.stacks[inactive] = s.stacks[inactive]
                 /\ ShowdownOver(t, t.previous_state)]_vars

C8_Witness ==
    /\ IsTerminalState(round_state)
    /\ action = UpAction
    /\ round_state.previous_state.action_history = <<UpAction, UpAction>>

\* C9: at a showdown the seat with the higher card wins the other seat's
\* pips.  Down, Up, Up ends with deltas [+2, -2] when seat 0's card beats
\* seat 1's and [-2, +2] otherwise; Down, Down ends with deltas of
\* magnitude 1.
C9_Showdown ==
    IsTerminalState(round_state) =>
        LET s == round_state.previous_state
            d == round_state.deltas
        IN  /\ s.pips[0] = s.pips[1] => ShowdownOver(round_state, s)
            /\ s.action_history = <<DownAction, UpAction, UpAction>> =>
                  d = IF s.hands[0] > s.hands[1] THEN Pair(2, -2) ELSE Pair(-2, 2)
            /\ s.action_history = <<DownAction, DownAction>> =>
                  d = IF s.hands[0] > s.hands[1] THEN Pair(1, -1) ELSE Pair(-1, 1)

C9_Witness ==
    /\ IsTerminalState(round_state)
    /\ round_state.previous_state.action_history = <<DownAction, UpAction, UpAction>>
    /\ round_state.previous_state.deck.cards = <<2, 0, 1>>
    /\ round_state.deltas = Pair(2, -2)

(***************************************************************************)
(* SpecQuery: Player.query alone.  One Player, connected or not, is        *)
(* queried again and again with wait=True on a RoundState, the socket      *)
(* behaving in every way an exchange can: each reply line of Replies at    *)
(* each latency, and each socket fault.                                    *)
(***************************************************************************)
\* The packets a Player is sent in SpecQuery.
MaxQueries == 2

\* Match.__init__: self.log = ['Poker Camp Game Engine - ...']
InitialLog == <<LogLine("Poker Camp Game Engine", 0)>>

\* Player.run, lines 396-402: the bot connected; hello is queued.
Connected(self) == PlayerAppend([self EXCEPT !.socketfile = TRUE], HelloMessage)

InitQuery ==
    /\ round_state = RoundStateNew(NewDeck(<<2, 0, 1>>))
    /\ action = "None"
    /\ \E connected \in BOOLEAN :
          player = [p \in {1, 2} |-> IF p = 1 /\ connected
                                     THEN Connected(NewPlayer(p))
                                     ELSE NewPlayer(p)]
    /\ players = Pair(1, 2)
    /\ log = InitialLog
    /\ round_num = 1
    /\ pc = "query"
    /\ exception = "None"
    /\ duplicate_file_iterator = ClosedIterator
    /\ shuffles = 0
    /\ \E enforce \in BOOLEAN : config = Config(enforce, TRUE, FALSE)
    /\ twin = NoTwin
    /\ kuhn_deck = NoDeck
    /\ files = NoFiles
    /\ bot = NoBot

\* action = player.query(round_state, self.log)
QueryStep(io) ==
    /\ pc \in {"query", "queried"}
    /\ Len(player[1].message_log) < MaxQueries
    /\ LET r == Query(player[1], round_state, log, TRUE, io, config.ENFORCE_GAME_CLOCK)
       IN  /\ player' = [player EXCEPT ![1] = r.self]
           /\ log' = r.log
           /\ action' = r.ret
           /\ exception' = r.raised
           /\ pc' = IF r.raised = "None" THEN "queried" ELSE "aborted"
    /\ UNCHANGED <<round_state, players, round_num, duplicate_file_iterator,
                   shuffles, config, twin,
                   kuhn_deck, files, bot>>

NextQuery == \E io \in ExchangesOver(Replies, Latencies) : QueryStep(io)

SpecQuery == InitQuery /\ [][NextQuery]_vars

\* C1: a call of query with wait=True on a RoundState raises nothing and
\* returns an action of round_state.legal_actions(), whatever the bot sent
\* and whatever the socket did.
C1_FallbackTotality ==
    /\ exception = "None"
    /\ pc = "queried" => action \in LegalActions(round_state)

(***************************************************************************)
(* Match: the orchestration of one matchup.  The operations are written as *)
(* operators over an engine record e holding the whole state of a run, so  *)
(* that a second run can be stepped beside the first.                      *)
(***************************************************************************)
\* random.seed(68127) fixes the shuffles random.shuffle makes of [0, 1, 2]:
\* these are the first twelve, in order.
ShuffleOutcomes ==
    << <<1, 0, 2>>, <<2, 1, 0>>, <<1, 2, 0>>, <<2, 0, 1>>, <<0, 2, 1>>, <<0, 1, 2>>,
       <<2, 0, 1>>, <<0, 1, 2>>, <<0, 2, 1>>, <<1, 0, 2>>, <<1, 0, 2>>, <<2, 0, 1>> >>

\* The duplicate files of the model, by name: what -d names.  "None" is no
\* -d argument; "unreadable" is a file open() fails on (a directory, a file
\* without read permission); "missing" is a path that does not exist.
DuplicateFileLines(file) ==
    IF file = "one_line" THEN << <<2, 0, 1>> >>
    ELSE IF file = "four_lines"
    THEN << <<2, 0, 1>>, <<0, 1, 2>>, <<1, 2, 0>>, <<0, 2, 1>> >>
    ELSE << >>

DuplicateFiles == {"None", "unreadable", "missing", "one_line", "four_lines"}

\* KuhnDeck.ensure_duplicate_file_iterator, lines 53-55: the first call for
\* a duplicate file hashes its path and os.path.getmtime, which raises
\* FileNotFoundError for a path that does not exist, outside the try.
EnsureRaises(iterator, file) ==
    IF ~iterator.open /\ file = "missing" THEN "FileNotFoundError" ELSE "None"

\* KuhnDeck.ensure_duplicate_file_iterator: the iterator is opened when
\* there is none, a duplicate file is named and open() succeeds.
EnsureDuplicateFileIterator(iterator, file) ==
    IF ~iterator.open /\ file \notin {"None", "unreadable", "missing"}
    THEN [open |-> TRUE, lines |-> DuplicateFileLines(file)]
    ELSE iterator

\* KuhnDeck.__init__: the deck of a round, and the class state after it.
\* A line of the duplicate file is used when there is one; else the default
\* deck is shuffled.
KuhnDeck(e) ==
    LET iterator == EnsureDuplicateFileIterator(e.duplicate_file_iterator,
                                                e.config.duplicate_file)
        default == ShuffleOutcomes[(e.shuffles % Len(ShuffleOutcomes)) + 1]
    IN  IF e.config.duplicate_file # "None" /\ iterator.open /\ iterator.lines # << >>
        THEN [deck |-> NewDeck(Head(iterator.lines)),
              iterator |-> [iterator EXCEPT !.lines = Tail(@)],
              shuffles |-> e.shuffles]
        ELSE [deck |-> NewDeck(default), iterator |-> iterator,
              shuffles |-> e.shuffles + 1]

\* The game log lines of Match.
LogValue(text, name, value) == [text |-> text, name |-> name, value |-> value]
\* STATUS(players): the names and bankrolls, in seat order.
Status(e) == [s \in Seats |-> <<e.player[e.players[s]].name,
                                e.player[e.players[s]].bankroll>>]

\* How Player.build can go.  commands.json: "not found" (FileNotFoundError),
\* "misformatted" (JSONDecodeError), "missing command" (no 'build' and 'run'
\* lists), "not an object" (valid JSON that is a number, null or a list of
\* names: the test of line 329 raises TypeError), "unreadable" (open or read
\* raises an OSError other than FileNotFoundError).  The build command:
\* "ok", "build timeout" (TimeoutExpired), "build misformatted" (TypeError,
\* ValueError), "build OSError" (the command cannot be spawned).
CommandsFailures == {"not found", "misformatted", "missing command"}
CommandsRaises == {"not an object", "unreadable"}
BuildCommandFailures == {"build timeout", "build misformatted", "build OSError"}
BuildFailures == CommandsFailures \cup CommandsRaises \cup BuildCommandFailures
BuildOutcomes == {"ok"} \cup BuildFailures

\* The exception that leaves build: lines 335-338 catch FileNotFoundError and
\* JSONDecodeError alone.
BuildRaises(outcome) ==
    IF outcome = "not an object" THEN "TypeError"
    ELSE IF outcome = "unreadable" THEN "OSError"
    ELSE "None"

\* Player.build: commands is set when commands.json holds the two lists,
\* whatever the build command does then.
Build(self, outcome) ==
    [self EXCEPT !.commands = (outcome \in {"ok"} \cup BuildCommandFailures),
                 !.build = outcome]

\* How Player.run can go once it launches: the bot connects within
\* CONNECT_TIMEOUT, accept() times out, or Popen raises (TypeError or
\* ValueError: "run misformatted", OSError: "run OSError").
RunOutcomes == {"connected", "timeout", "run misformatted", "run OSError"}

\* Player.run: with commands loaded the bot is launched; it connects within
\* CONNECT_TIMEOUT, or accept() times out, or it was never spawned.
Run(self, outcome) ==
    IF ~self.commands THEN self
    ELSE IF outcome = "connected"
    THEN Connected([self EXCEPT !.bot_subprocess = TRUE, !.run = outcome,
                                !.process = "running"])
    ELSE IF outcome = "timeout"
    THEN [self EXCEPT !.bot_subprocess = TRUE, !.run = outcome, !.process = "running"]
    ELSE [self EXCEPT !.run = outcome]

\* Match.send_round_state
SendRoundState(e) ==
    LET rs == e.round_state
        name(seat) == e.player[e.players[seat]].name
        info(seat) == InfoMessage(seat, VisibleHands(rs, seat), TRUE)
    IN  IF rs.street = 0 /\ rs.turn_number = 0
        THEN [e EXCEPT
                !.log = @ \o <<LogValue("posts the ante", name(0), ANTE),
                               LogValue("posts the ante", name(1), ANTE),
                               LogValue("dealt", name(0), rs.hands[0]),
                               LogValue("dealt", name(1), rs.hands[1])>>,
                !.player = [p \in DOMAIN @ |->
                              IF p = e.players[0] THEN PlayerAppend(@[p], info(0))
                              ELSE PlayerAppend(@[p], info(1))]]
        ELSE IF rs.street > 0 /\ rs.turn_number = 1
        THEN [e EXCEPT !.exception = "AttributeError", !.pc = "aborted"]
        ELSE e

\* Mutant: the action message carries the seat that did not act.
SendActionTagsOther(e, seat, a) ==
    LET code == IF a = UpAction THEN "U" ELSE "D"
        phrasing == IF a = UpAction THEN "up" ELSE "down"
    IN  [e EXCEPT
            !.log = Append(@, LogLine(phrasing, e.player[e.players[seat]].name)),
            !.player = [p \in DOMAIN @ |-> PlayerAppend(@[p], ActionMessage(code, 1 - seat))]]

\* Match.send_action
SendAction(e, seat, a) ==
    LET code == IF a = UpAction THEN "U" ELSE "D"
        phrasing == IF a = UpAction THEN "up" ELSE "down"
    IN  [e EXCEPT
            !.log = Append(@, LogLine(phrasing, e.player[e.players[seat]].name)),
            !.player = [p \in DOMAIN @ |-> PlayerAppend(@[p], ActionMessage(code, seat))]]

\* Mutant: the hands are shown whether or not the pips are equal.
SendTerminalStateAlwaysShows(e) ==
    LET ts == e.round_state
        previous_state == ts.previous_state
        name(seat) == e.player[e.players[seat]].name
        seat_of(p) == IF p = e.players[0] THEN 0 ELSE 1
    IN  [e EXCEPT
            !.log = @ \o <<LogValue("shows", name(0), previous_state.hands[0]),
                           LogValue("shows", name(1), previous_state.hands[1]),
                           LogValue("awarded", name(0), ts.deltas[0]),
                           LogValue("awarded", name(1), ts.deltas[1])>>,
            !.player = [p \in DOMAIN @ |->
                          PlayerAppend(PlayerAppend(@[p], InfoMessage(seat_of(p),
                                                    previous_state.hands, FALSE)),
                                       PayoffMessage(ts.deltas[seat_of(p)]))]]

\* Match.send_terminal_state
SendTerminalState(e) ==
    LET ts == e.round_state
        previous_state == ts.previous_state
        name(seat) == e.player[e.players[seat]].name
        seat_of(p) == IF p = e.players[0] THEN 0 ELSE 1
        shown == IF previous_state.pips[0] = previous_state.pips[1]
                 THEN [e EXCEPT
                         !.log = @ \o <<LogValue("shows", name(0), previous_state.hands[0]),
                                        LogValue("shows", name(1), previous_state.hands[1])>>,
                         !.player = [p \in DOMAIN @ |->
                                       PlayerAppend(@[p], InfoMessage(seat_of(p),
                                                    previous_state.hands, FALSE))]]
                 ELSE e
    IN  [shown EXCEPT
            !.log = @ \o <<LogValue("awarded", name(0), ts.deltas[0]),
                           LogValue("awarded", name(1), ts.deltas[1])>>,
            !.player = [p \in DOMAIN @ |->
                          PlayerAppend(@[p], PayoffMessage(ts.deltas[seat_of(p)]))]]

\* Match.run, lines 657-658, and the first line of run_round: a round starts.
BeginRound(e) ==
    LET k == KuhnDeck(e)
        logged == [e EXCEPT !.log = @ \o <<LogLine("", 0),
                                           [text |-> "Round #", name |-> 0,
                                            value |-> e.round_num, status |-> Status(e)]>>]
    IN  IF Len(k.deck.cards) < 2
        THEN [logged EXCEPT !.duplicate_file_iterator = k.iterator,
                            !.shuffles = k.shuffles,
                            !.exception = "ValueError", !.pc = "aborted"]
        ELSE [logged EXCEPT !.duplicate_file_iterator = k.iterator,
                            !.shuffles = k.shuffles,
                            !.round_state = RoundStateNew(k.deck),
                            !.pc = "round"]

\* Mutant: the player at the other seat is queried.
RunRoundTurnAsksInactive(e, io) ==
    LET sent == SendRoundState(e)
        active == e.round_state.turn_number % 2
        p == e.players[1 - active]
        r == Query(sent.player[p], sent.round_state, sent.log, TRUE, io,
                   e.config.ENFORCE_GAME_CLOCK)
        queried == [sent EXCEPT !.player[p] = r.self, !.log = r.log]
    IN  IF sent.exception # "None" THEN sent
        ELSE IF r.raised # "None"
        THEN [queried EXCEPT !.exception = r.raised, !.pc = "aborted"]
        ELSE [SendAction(queried, active, r.ret) EXCEPT
                !.action = r.ret,
                !.round_state = Proceed(e.round_state, r.ret)]

\* Match.run_round, lines 628-636: one pass of the loop.
RunRoundTurn(e, io) ==
    LET sent == SendRoundState(e)
        active == e.round_state.turn_number % 2
        p == e.players[active]
        r == Query(sent.player[p], sent.round_state, sent.log, TRUE, io,
                   e.config.ENFORCE_GAME_CLOCK)
        queried == [sent EXCEPT !.player[p] = r.self, !.log = r.log]
    IN  IF sent.exception # "None" THEN sent
        ELSE IF r.raised # "None"
        THEN [queried EXCEPT !.exception = r.raised, !.pc = "aborted"]
        ELSE [SendAction(queried, active, r.ret) EXCEPT
                !.action = r.ret,
                !.round_state = Proceed(e.round_state, r.ret)]

\* Mutant: the deltas are paid to player 1 and player 2 in that order,
\* whatever seats they sit on.
EndRoundPaysByIndex(e) ==
    LET sent == SendTerminalState(e)
    IN  [sent EXCEPT
            !.player = [p \in DOMAIN @ |->
                          [@[p] EXCEPT !.bankroll = @ + e.round_state.deltas[p - 1]]],
            !.players = IF e.config.switch_seats THEN Pair(@[1], @[0]) ELSE @,
            !.round_num = @ + 1,
            !.pc = "rounds"]

\* Mutant: the seats are switched whatever the configuration says.
EndRoundAlwaysSwitches(e) ==
    LET sent == SendTerminalState(e)
        seat_of(p) == IF p = e.players[0] THEN 0 ELSE 1
    IN  [sent EXCEPT
            !.player = [p \in DOMAIN @ |->
                          [@[p] EXCEPT !.bankroll = @ + e.round_state.deltas[seat_of(p)]]],
            !.players = Pair(@[1], @[0]),
            !.round_num = @ + 1,
            !.pc = "rounds"]

\* Match.run_round, lines 637-639, and Match.run, lines 660-661: the round
\* is paid out and the seats are switched.
EndRound(e) ==
    LET sent == SendTerminalState(e)
        seat_of(p) == IF p = e.players[0] THEN 0 ELSE 1
    IN  [sent EXCEPT
            !.player = [p \in DOMAIN @ |->
                          [@[p] EXCEPT !.bankroll = @ + e.round_state.deltas[seat_of(p)]]],
            !.players = IF e.config.switch_seats THEN Pair(@[1], @[0]) ELSE @,
            !.round_num = @ + 1,
            !.pc = "rounds"]

\* Match.run, lines 662-663: the rounds are over.
EndRounds(e) ==
    [e EXCEPT !.log = @ \o <<LogLine("", 0),
                             [text |-> "Final", name |-> 0, value |-> 0,
                              status |-> Status(e)]>>,
              !.pc = "stopping"]

\* The exchanges a match of the model sees: a prompt Up or Down, a line
\* that decodes to nothing, a line whose decoding raises, an Up that comes
\* later than the whole game clock, and a connection that is reset.
MatchExchanges ==
    {Exchange("reply", r, 1) :
        r \in {ReplyObject(ItemU), ReplyObject(ItemD), ReplyEmpty, ReplyObject(ItemScalar)}}
    \cup {Exchange("reply", ReplyObject(ItemU), STARTING_GAME_CLOCK + 1),
          Exchange("read_OSError", ReplyEmpty, 0)}

(***************************************************************************)
(* Spec: a whole match.                                                    *)
(***************************************************************************)
Engine ==
    [round_state |-> round_state, action |-> action, player |-> player,
     players |-> players, log |-> log, round_num |-> round_num, pc |-> pc,
     exception |-> exception, duplicate_file_iterator |-> duplicate_file_iterator,
     shuffles |-> shuffles, config |-> config]

SetEngine(e) ==
    /\ round_state' = e.round_state
    /\ action' = e.action
    /\ player' = e.player
    /\ players' = e.players
    /\ log' = e.log
    /\ round_num' = e.round_num
    /\ pc' = e.pc
    /\ exception' = e.exception
    /\ duplicate_file_iterator' = e.duplicate_file_iterator
    /\ shuffles' = e.shuffles
    /\ config' = e.config

\* Match.__init__ and Match.run, lines 645-652.
InitEngine(cfg) ==
    [round_state |-> NoneState, action |-> "None",
     player |-> [p \in {1, 2} |-> NewPlayer(p)],
     players |-> Pair(1, 2), log |-> InitialLog, round_num |-> 1,
     pc |-> IF EnsureRaises(ClosedIterator, cfg.duplicate_file) = "None"
            THEN "build_1" ELSE "aborted",
     exception |-> EnsureRaises(ClosedIterator, cfg.duplicate_file),
     duplicate_file_iterator |-> EnsureDuplicateFileIterator(ClosedIterator,
                                                             cfg.duplicate_file),
     shuffles |-> 0, config |-> cfg]

Configs ==
    {Config(enforce, switch_seats, file) :
        enforce \in BOOLEAN, switch_seats \in BOOLEAN, file \in DuplicateFiles}

Init ==
    /\ \E cfg \in Configs :
          LET e == InitEngine(cfg)
          IN  /\ round_state = e.round_state
              /\ action = e.action
              /\ player = e.player
              /\ players = e.players
              /\ log = e.log
              /\ round_num = e.round_num
              /\ pc = e.pc
              /\ exception = e.exception
              /\ duplicate_file_iterator = e.duplicate_file_iterator
              /\ shuffles = e.shuffles
              /\ config = e.config
    /\ twin = NoTwin
    /\ kuhn_deck = NoDeck
    /\ files = NoFiles
    /\ bot = NoBot

\* Match.run, lines 653-655: player.build(); player.run()
BuildAndRun(e, p, built, ran) ==
    IF BuildRaises(built) # "None"
    THEN [e EXCEPT !.player[p] = Build(@, built),
                   !.exception = BuildRaises(built), !.pc = "aborted"]
    ELSE [e EXCEPT !.player[p] = Run(Build(@, built), ran),
                   !.pc = IF p = 1 THEN "build_2" ELSE "rounds"]

Setup(p) ==
    /\ pc = IF p = 1 THEN "build_1" ELSE "build_2"
    /\ \E built \in {"ok", "not found"}, ran \in {"connected", "timeout"} :
          SetEngine(BuildAndRun(Engine, p, built, ran))
    /\ UNCHANGED <<twin, kuhn_deck, files, bot>>

RoundBegin ==
    /\ pc = "rounds"
    /\ round_num <= config.NUM_ROUNDS
    /\ SetEngine(BeginRound(Engine))
    /\ UNCHANGED <<twin, kuhn_deck, files, bot>>

RoundTurn ==
    /\ pc = "round"
    /\ IsRoundState(round_state)
    /\ \E io \in MatchExchanges : SetEngine(RunRoundTurn(Engine, io))
    /\ UNCHANGED <<twin, kuhn_deck, files, bot>>

RoundEnd ==
    /\ pc = "round"
    /\ IsTerminalState(round_state)
    /\ SetEngine(EndRound(Engine))
    /\ UNCHANGED <<twin, kuhn_deck, files, bot>>

RoundsEnd ==
    /\ pc = "rounds"
    /\ round_num > config.NUM_ROUNDS
    /\ SetEngine(EndRounds(Engine))
    /\ UNCHANGED <<twin, kuhn_deck, files, bot>>

Next ==
    \/ \E p \in {1, 2} : Setup(p)
    \/ RoundBegin
    \/ RoundTurn
    \/ RoundEnd
    \/ RoundsEnd

Spec == Init /\ [][Next]_vars

(***************************************************************************)
(* Claims about a match (checked under Spec).                              *)
(***************************************************************************)
\* The messages of a list of packets, without the time message each packet
\* starts with.
RECURSIVE Flatten(_)
Flatten(packets) ==
    IF packets = << >> THEN << >>
    ELSE Tail(Head(packets)) \o Flatten(Tail(packets))

\* Every message appended for a bot so far, in the order of the appends:
\* those sent in packets, then those still queued.
Queued(self) == Flatten(self.message_log) \o Tail(self.messages)

\* The messages from the last info with new_game = true on: those of the
\* round the bot was last dealt into.
RoundMessages(msgs) ==
    LET starts == {i \in DOMAIN msgs : msgs[i].type = "info" /\ msgs[i].new_game}
        last == CHOOSE i \in starts : \A j \in starts : j <= i
    IN  IF starts = {} THEN << >> ELSE SubSeq(msgs, last, Len(msgs))

\* The seat whose turn it is, and the seat that acted last.
ActiveSeat(rs) == rs.turn_number % 2

\* C4: a bot whose charged latency exceeds its starting game clock is given
\* the fallback DownAction at every query from then on, and no query sends
\* it a packet or reads a reply from it again.
C4_ClockEnforcement ==
    [][(/\ pc = "round"
        /\ IsRoundState(round_state)
        /\ player[players[ActiveSeat(round_state)]].latency > STARTING_GAME_CLOCK) =>
        LET p == players[ActiveSeat(round_state)]
        IN  /\ exception' = "None"
            /\ action' = DownAction
            /\ IsRoundState(round_state') =>
                  round_state'.action_history = Append(round_state.action_history, DownAction)
            /\ IsTerminalState(round_state') =>
                  round_state'.previous_state.action_history =
                      Append(round_state.action_history, DownAction)
            /\ player'[p].message_log = player[p].message_log
            /\ player'[p].response_log = player[p].response_log
            /\ player'[p].game_clock = 0]_vars

\* A bot that ran out of clock in round 1 (its only packet) has acted again
\* in round 2.
C4_Witness ==
    /\ pc = "round"
    /\ round_num = 2
    /\ \E seat \in Seats :
          LET p == players[seat]
              acted == IF IsTerminalState(round_state) THEN round_state.previous_state
                       ELSE round_state
          IN  /\ player[p].latency > STARTING_GAME_CLOCK
              /\ Len(player[p].message_log) = 1
              /\ acted.turn_number > 0
              /\ (acted.turn_number - 1) % 2 = seat
              /\ action = DownAction

\* C5: visible_hands(seat) has the length of hands, holds hands[seat] at
\* seat and None elsewhere; and while a round is being played, no message
\* appended for a bot in that round carries the other seat's card.
C5_Privacy ==
    (pc = "round" /\ IsRoundState(round_state)) =>
        \A seat \in Seats :
            /\ DOMAIN VisibleHands(round_state, seat) = DOMAIN round_state.hands
            /\ VisibleHands(round_state, seat)[seat] = round_state.hands[seat]
            /\ VisibleHands(round_state, seat)[1 - seat] = NoneCard
            /\ round_state.turn_number > 0 =>
                  LET msgs == RoundMessages(Queued(player[players[seat]]))
                  IN  /\ msgs # << >>
                      /\ msgs[1].seat = seat
                      /\ \A i \in DOMAIN msgs :
                            msgs[i].type = "info" =>
                                /\ msgs[i].hands[seat] = round_state.hands[seat]
                                /\ msgs[i].hands[1 - seat] = NoneCard

C5_Witness ==
    /\ pc = "round"
    /\ IsRoundState(round_state)
    /\ round_state.turn_number = 2
    /\ round_num = 2
    /\ \A p \in {1, 2} : Len(player[p].message_log) >= 2

\* C6: when a round has ended, each bot has been appended exactly one payoff
\* message for it; both hands were appended for both bots if and only if the
\* pips ended equal; after a fold no message of the round carries the other
\* seat's card.
C6_Reveal ==
    (pc \in {"rounds", "stopping"} /\ IsTerminalState(round_state)) =>
        \A p \in {1, 2} :
            LET msgs == RoundMessages(Queued(player[p]))
                seat == msgs[1].seat
                previous_state == round_state.previous_state
                showdown == previous_state.pips[0] = previous_state.pips[1]
                reveals == {i \in DOMAIN msgs :
                               msgs[i].type = "info" /\ msgs[i].hands = previous_state.hands}
                payoffs == {i \in DOMAIN msgs : msgs[i].type = "payoff"}
            IN  /\ msgs # << >>
                /\ showdown <=> reveals # {}
                /\ ~showdown =>
                      \A i \in DOMAIN msgs :
                          msgs[i].type = "info" => msgs[i].hands[1 - seat] = NoneCard
                /\ Cardinality(payoffs) = 1
                /\ \A i \in payoffs : i = Len(msgs) /\ msgs[i].payoff = round_state.deltas[seat]

C6_Witness ==
    /\ pc = "rounds"
    /\ IsTerminalState(round_state)
    /\ round_state.previous_state.pips[0] # round_state.previous_state.pips[1]
    /\ \A p \in {1, 2} : player[p].socketfile

(***************************************************************************)
(* SpecTwin: two runs of the engine side by side.  Both are given the same *)
(* configuration, the same bots (the same setup outcomes and reply lines)  *)
(* and the same deals; the latency measured for an exchange with a bot is  *)
(* each run's own (twin.latency[i][p] in run i for bot p).  The first run  *)
(* is the state of the module, the second is twin.e.                       *)
(* twin.agree records that, at every step so far, the same bots had a      *)
(* positive game clock in both runs; the comparison ends when it fails.    *)
(***************************************************************************)
TwinReplies == {ReplyObject(ItemU), ReplyObject(ItemD)}

TwinLatencies == [{1, 2} -> {0, 1}]

\* The exchange of run i with its active bot, whose reply line is reply.
TwinExchange(e, i, reply) ==
    Exchange("reply", reply,
             twin.latency[i][e.players[e.round_state.turn_number % 2]])

SameClocksLeft(e1, e2) ==
    \A p \in DOMAIN e1.player :
        (e1.player[p].game_clock > 0) <=> (e2.player[p].game_clock > 0)

InSync == twin.agree /\ twin.e.pc = pc /\ twin.e.round_state.kind = round_state.kind

\* Both runs take the same step, e1 and e2 being the runs after it.
TwinStep(e1, e2) ==
    /\ SetEngine(e1)
    /\ twin' = [twin EXCEPT !.e = e2, !.agree = @ /\ SameClocksLeft(e1, e2)]
    /\ UNCHANGED <<kuhn_deck, files, bot>>

\* The configurations compared: seats switch between rounds, and the deals
\* come from the seeded shuffle or from a duplicate file.
TwinConfigs ==
    {Config(enforce, TRUE, file) :
        enforce \in BOOLEAN, file \in {"None", "four_lines"}}

InitTwin ==
    \E cfg \in TwinConfigs, l1 \in TwinLatencies, l2 \in TwinLatencies :
        LET e == InitEngine(cfg)
        IN  /\ round_state = e.round_state
            /\ action = e.action
            /\ player = e.player
            /\ players = e.players
            /\ log = e.log
            /\ round_num = e.round_num
            /\ pc = e.pc
            /\ exception = e.exception
            /\ duplicate_file_iterator = e.duplicate_file_iterator
            /\ shuffles = e.shuffles
            /\ config = e.config
            /\ twin = [used |-> TRUE, e |-> e, agree |-> TRUE, latency |-> <<l1, l2>>]
            /\ kuhn_deck = NoDeck
            /\ files = NoFiles
            /\ bot = NoBot

TwinSetup(p) ==
    /\ InSync
    /\ pc = IF p = 1 THEN "build_1" ELSE "build_2"
    /\ \E ran \in {"connected", "timeout"} :
          TwinStep(BuildAndRun(Engine, p, "ok", ran),
                   BuildAndRun(twin.e, p, "ok", ran))

TwinRoundBegin ==
    /\ InSync
    /\ pc = "rounds"
    /\ round_num <= config.NUM_ROUNDS
    /\ TwinStep(BeginRound(Engine), BeginRound(twin.e))

TwinRoundTurn ==
    /\ InSync
    /\ pc = "round"
    /\ IsRoundState(round_state)
    /\ \E reply \in TwinReplies :
          TwinStep(RunRoundTurn(Engine, TwinExchange(Engine, 1, reply)),
                   RunRoundTurn(twin.e, TwinExchange(twin.e, 2, reply)))

TwinRoundEnd ==
    /\ InSync
    /\ pc = "round"
    /\ IsTerminalState(round_state)
    /\ TwinStep(EndRound(Engine), EndRound(twin.e))

TwinRoundsEnd ==
    /\ InSync
    /\ pc = "rounds"
    /\ round_num > config.NUM_ROUNDS
    /\ TwinStep(EndRounds(Engine), EndRounds(twin.e))

NextTwin ==
    \/ \E p \in {1, 2} : TwinSetup(p)
    \/ TwinRoundBegin
    \/ TwinRoundTurn
    \/ TwinRoundEnd
    \/ TwinRoundsEnd

SpecTwin == InitTwin /\ [][NextTwin]_vars

\* What the claim compares of two runs: the node of the round (the deal, the
\* action history, the deltas), the bankrolls and the transcript.
SameOutcome(e1, e2) ==
    /\ e1.pc = e2.pc
    /\ e1.exception = e2.exception
    /\ e1.round_state = e2.round_state
    /\ e1.log = e2.log
    /\ \A p \in DOMAIN e1.player : e1.player[p].bankroll = e2.player[p].bankroll

\* C10 as stated: two runs given the same deals and the same replies have
\* the same action histories, deltas and transcript.
C10_Determinism == twin.used => SameOutcome(Engine, twin.e)

\* C10 amended: two runs given the same deals and the same replies have the
\* same action histories, deltas and transcript when the game clock is not
\* enforced, and otherwise as long as the same bots have run out of clock
\* in both; the latency of an exchange has no other influence.
C10_DeterminismUpToClock ==
    (twin.used /\ (~config.ENFORCE_GAME_CLOCK \/ twin.agree)) =>
        SameOutcome(Engine, twin.e)

\* Two runs of a finished round, under an enforced clock, in which a bot
\* was charged different latencies and which agree on the outcome.
C10_Witness ==
    /\ twin.used
    /\ twin.agree
    /\ config.ENFORCE_GAME_CLOCK
    /\ IsTerminalState(round_state)
    /\ \E p \in {1, 2} :
          /\ player[p].game_clock > 0
          /\ twin.e.player[p].game_clock > 0
          /\ player[p].game_clock # twin.e.player[p].game_clock
    /\ SameOutcome(Engine, twin.e)

(***************************************************************************)
(* Further claims about the round state machine (checked under SpecRound). *)
(***************************************************************************)
\* The RoundState a node of the round is, or was last (previous_state of a
\* TerminalState).
RoundNode(s) == IF IsTerminalState(s) THEN s.previous_state ELSE s

\* C11: in every RoundState of a round pips[i] <= STARTING_STACK - stacks[i]
\* for each seat i, and pips[0] + pips[1] never decreases from a state to
\* its successor.
C11_PipsBoundedMonotone ==
    [][LET s == RoundNode(round_state)
           t == RoundNode(round_state')
       IN  /\ \A i \in Seats : s.pips[i] <= STARTING_STACK - s.stacks[i]
           /\ \A i \in Seats : t.pips[i] <= STARTING_STACK - t.stacks[i]
           /\ t.pips[0] + t.pips[1] >= s.pips[0] + s.pips[1]]_vars

\* A bet was called: both seats have their whole stack in.
C11_Witness ==
    /\ IsTerminalState(round_state)
    /\ round_state.previous_state.pips = Pair(STARTING_STACK, STARTING_STACK)
    /\ round_state.previous_state.stacks = Pair(0, 0)

\* C12: proceed is a pure transition: the successor is linked to the state
\* proceed was called on, with every field of that state as it was, it has
\* the same hands and deck, and a TerminalState is not proceeded from.
C12_PureTransition ==
    [][LET t == RoundNode(round_state')
       IN  /\ IsRoundState(round_state)
           /\ t.previous_state = round_state
           /\ t.hands = round_state.hands
           /\ t.deck = round_state.deck
           /\ t.turn_number = round_state.turn_number + 1
           /\ t.action_history = Append(round_state.action_history, action')]_vars

\* The chain of a three-action round leads back to the node of RoundState.new.
C12_Witness ==
    /\ IsTerminalState(round_state)
    /\ round_state.previous_state.turn_number = 3
    /\ round_state.previous_state.previous_state.previous_state.previous_state
         = RoundStateNew(NewDeck(round_state.previous_state.deck.cards))

(***************************************************************************)
(* Further claims about a match (checked under Spec).                      *)
(***************************************************************************)
\* C13: every packet query writes starts with a time message carrying the
\* bot's game clock at the query, followed by the messages queued since the
\* previous packet; the packets and the queue together hold every message
\* that was appended exactly once, in order.
C13_Packets ==
    [][\A p \in {1, 2} :
          LET old == player[p].message_log
              new == player'[p].message_log
              packet == new[Len(new)]
          IN  /\ new # old =>
                    /\ Len(new) = Len(old) + 1
                    /\ SubSeq(new, 1, Len(old)) = old
                    /\ packet[1] = [type |-> "time", time |-> player[p].game_clock]
                    /\ \A i \in 2..Len(packet) : packet[i].type # "time"
              /\ Flatten(new) \o Tail(player'[p].messages) = player'[p].appended]_vars

\* A bot was sent a second packet, with a later clock and with the action
\* messages queued since its first.
C13_Witness ==
    \E p \in {1, 2} :
        /\ Len(player[p].message_log) >= 2
        /\ player[p].message_log[2][1].time < player[p].message_log[1][1].time
        /\ Len(player[p].message_log[2]) >= 3

(***************************************************************************)
(* Further claims about query (checked under SpecQuery).                   *)
(***************************************************************************)
\* The reply lines that produce no action: empty, no JSON, or JSON objects
\* that lack a required field or have an unrecognized type or verb.
NoActionLine(reply) ==
    \/ reply.form \in {"empty", "text", "badjson"}
    \/ /\ reply.form \in {"object", "array"}
       /\ \A i \in DOMAIN reply.items :
             reply.items[i] \in {ItemNoType, ItemHello, ItemNoAction, ItemNoVerb, ItemR}

\* C14: when a bot replies in time with a line that is empty, is not JSON,
\* lacks a required field or has an unrecognized type or verb, query raises
\* nothing, appends one fault entry to the game log that is not the
\* illegal-action entry, and returns the fallback action.
C14_NoActionProduced ==
    [][LET old == player[1].response_log
           new == player'[1].response_log
       IN  (new # old /\ player'[1].game_clock > 0 /\ NoActionLine(new[Len(new)])) =>
              /\ exception' = "None"
              /\ action' = DownAction
              /\ Len(log') = Len(log) + 1
              /\ SubSeq(log', 1, Len(log)) = log
              /\ log'[Len(log')] \in {[text |-> "did not respond", name |-> 1],
                                       [text |-> "misformatted", name |-> 1]}]_vars

\* A line json.loads rejects was answered with the fallback and logged.
C14_Witness ==
    /\ pc = "queried"
    /\ action = DownAction
    /\ player[1].game_clock > 0
    /\ player[1].response_log # << >>
    /\ player[1].response_log[Len(player[1].response_log)].form = "badjson"
    /\ log[Len(log)].text = "misformatted"

\* The game log has the entry of a socket error of bot 1.
Disconnected(game_log) ==
    \E i \in DOMAIN game_log : game_log[i] = [text |-> "disconnected", name |-> 1]

\* C20: a socket error during a bot's exchange sets its game clock to zero
\* and the query returns the fallback action; every later query with
\* wait=True returns the fallback without a packet written or a reply read.
C20_DisconnectIsExhaustion ==
    [][LET old == player[1]
           new == player'[1]
       IN  /\ (~Disconnected(log) /\ Disconnected(log')) =>
                 /\ new.game_clock = 0
                 /\ action' = DownAction
                 /\ exception' = "None"
                 /\ Len(new.message_log) = Len(old.message_log) + 1
           /\ Disconnected(log) =>
                 /\ new.game_clock = 0
                 /\ action' = DownAction
                 /\ exception' = "None"
                 /\ new.message_log = old.message_log
                 /\ new.response_log = old.response_log
                 /\ log' = log]_vars

\* The connection was reset while the second reply was read.
C20_Witness ==
    /\ pc = "queried"
    /\ Disconnected(log)
    /\ player[1].game_clock = 0
    /\ player[1].latency < STARTING_GAME_CLOCK
    /\ Len(player[1].message_log) = 2
    /\ Len(player[1].response_log) = 1
    /\ action = DownAction

(***************************************************************************)
(* Claims about the deck of a match (checked under Spec).                  *)
(***************************************************************************)
\* The deal of a round: two different cards of the deck 0, 1, 2.
ValidDeal(rs) ==
    /\ rs.hands[0] \in CardValues
    /\ rs.hands[1] \in CardValues
    /\ rs.hands[0] # rs.hands[1]

\* C19: with a duplicate file that runs out of lines or cannot be read, no
\* error of the deck ends the match, and every round has a valid deal (from
\* the shuffled default deck where the file gives none).
C19_DuplicateFallback ==
    config.duplicate_file # "None" =>
        /\ exception \notin {"FileNotFoundError", "ValueError"}
        /\ IsRoundState(round_state) => ValidDeal(round_state)
        /\ (IsRoundState(round_state) /\ ~duplicate_file_iterator.open) =>
              /\ shuffles >= 1
              /\ round_state.deck.cards = ShuffleOutcomes[shuffles]

(***************************************************************************)
(* SpecSetup: a match over every way build and run can go for each bot.    *)
(* The bots that connect answer every query at once with Up or Down.       *)
(***************************************************************************)
SetupExchanges ==
    {Exchange("reply", r, 0) : r \in {ReplyObject(ItemU), ReplyObject(ItemD)}}

InitSetup ==
    /\ \E enforce \in BOOLEAN :
          LET e == InitEngine(Config(enforce, TRUE, "None"))
          IN  /\ round_state = e.round_state
              /\ action = e.action
              /\ player = e.player
              /\ players = e.players
              /\ log = e.log
              /\ round_num = e.round_num
              /\ pc = e.pc
              /\ exception = e.exception
              /\ duplicate_file_iterator = e.duplicate_file_iterator
              /\ shuffles = e.shuffles
              /\ config = e.config
    /\ twin = NoTwin
    /\ kuhn_deck = NoDeck
    /\ files = NoFiles
    /\ bot = NoBot

SetupAny(p) ==
    /\ pc = IF p = 1 THEN "build_1" ELSE "build_2"
    /\ \E built \in BuildOutcomes, ran \in RunOutcomes :
          SetEngine(BuildAndRun(Engine, p, built, ran))
    /\ UNCHANGED <<twin, kuhn_deck, files, bot>>

SetupRoundTurn ==
    /\ pc = "round"
    /\ IsRoundState(round_state)
    /\ \E io \in SetupExchanges : SetEngine(RunRoundTurn(Engine, io))
    /\ UNCHANGED <<twin, kuhn_deck, files, bot>>

NextSetup ==
    \/ \E p \in {1, 2} : SetupAny(p)
    \/ RoundBegin
    \/ SetupRoundTurn
    \/ RoundEnd
    \/ RoundsEnd

SpecSetup == InitSetup /\ [][NextSetup]_vars

\* Bot p failed to build or to connect.
SetupFailed(p) ==
    \/ player[p].build \in BuildFailures
    \/ player[p].run \in RunOutcomes \ {"connected"}

\* The actions taken so far in the round at the seat of bot p.
ActionsOf(p) ==
    LET node == RoundNode(round_state)
    IN  {node.action_history[i] : i \in {j \in DOMAIN node.action_history :
                                            players[(j - 1) % 2] = p}}

\* C15: when one bot fails to build or to connect, the match does not end
\* in an exception, the other bot is still built and (with its commands
\* loaded) launched, all NUM_ROUNDS rounds are played, and a failed bot
\* without a connection acts by the fallback DownAction alone.
C15_SetupFaultsIsolated ==
    \A p \in {1, 2} :
        SetupFailed(p) =>
            /\ exception = "None"
            /\ pc \notin {"build_1", "build_2"} =>
                  /\ player[3 - p].build # "None"
                  /\ player[3 - p].commands => player[3 - p].run # "None"
            /\ pc = "stopping" => round_num = NUM_ROUNDS + 1
            /\ (pc = "round" /\ ~player[p].socketfile) => ActionsOf(p) \subseteq {DownAction}

\* C16: after any build failure of a bot (commands file missing or
\* malformed, build timeout, build command not spawned) the bot has no
\* connection, and acts by the fallback DownAction alone.
C16_BuildFailureNoConnection ==
    \A p \in {1, 2} :
        player[p].build \in BuildFailures =>
            /\ ~player[p].socketfile
            /\ pc = "round" => ActionsOf(p) \subseteq {DownAction}

(***************************************************************************)
(* Player.stop, and SpecStop: a match whose connected bots answer Down at  *)
(* once, followed by the stop of each bot in seat order, over every way    *)
(* the goodbye, the close of the socket and the wait for the subprocess    *)
(* can go.                                                                 *)
(***************************************************************************)
\* What happens in one call of stop: the exchange of the goodbye (written,
\* or the write raising OSError or socket.timeout), the close of the socket
\* file ("ok", "OSError", "timeout") and the wait for the subprocess
\* ("exits" within CONNECT_TIMEOUT, or "timeout").
StopOutcome(goodbye, close, wait) == [goodbye |-> goodbye, close |-> close, wait |-> wait]

StopOutcomes ==
    {StopOutcome(Exchange(g, ReplyEmpty, 0), c, w) :
        g \in {"reply", "write_OSError", "write_timeout"},
        c \in {"ok", "OSError", "timeout"},
        w \in {"exits", "timeout"}}

Step(self, step) == [self EXCEPT !.steps = Append(@, step)]

\* Lines 414-422 of stop: the goodbye is queued and sent by query with
\* wait=False, and the socket file is closed; socket.timeout and OSError
\* are caught, whatever else query raises leaves stop.
StopSocket(self, o, enforce) ==
    LET r == Query(Step(PlayerAppend(self, GoodbyeMessage), "goodbye"),
                   NoneState, NoGameLog, FALSE, o.goodbye, enforce)
    IN  IF ~self.socketfile THEN [self |-> self, raised |-> "None"]
        ELSE IF r.raised # "None" THEN [self |-> r.self, raised |-> r.raised]
        ELSE [self |-> Step(r.self, "close"), raised |-> "None"]

\* Mutant: a subprocess that does not exit in time is left alone.
StopProcessNoKill(self, o) ==
    IF ~self.bot_subprocess THEN self
    ELSE IF o.wait = "exits" THEN [Step(self, "wait") EXCEPT !.process = "reaped"]
    ELSE Step(self, "wait")

\* Lines 423-431 of stop: communicate(timeout=CONNECT_TIMEOUT); on
\* TimeoutExpired kill() and communicate().
StopProcess(self, o) ==
    IF ~self.bot_subprocess THEN self
    ELSE IF o.wait = "exits" THEN [Step(self, "wait") EXCEPT !.process = "reaped"]
    ELSE [Step(Step(Step(self, "wait"), "kill"), "reap") EXCEPT !.process = "reaped"]

\* Lines 432-440 of stop: the stdout log is written.
StopLog(self) == Step(self, "stdout")

\* Player.stop
Stop(self, o, enforce) ==
    LET closed == StopSocket(self, o, enforce)
    IN  IF closed.raised # "None" THEN closed
        ELSE [self |-> StopLog(StopProcess(closed.self, o)), raised |-> "None"]

\* Match.run, lines 664-665: player.stop(i) for the bot at seat i.
StopPlayer(e, seat, o) ==
    LET p == e.players[seat]
        r == Stop(e.player[p], o, e.config.ENFORCE_GAME_CLOCK)
    IN  [e EXCEPT !.player[p] = r.self,
                  !.exception = r.raised,
                  !.pc = IF r.raised # "None" THEN "aborted"
                         ELSE IF seat = 0 THEN "stopped_0" ELSE "stopped_1"]

StopExchanges == {Exchange("reply", ReplyObject(ItemD), 0)}

InitStop ==
    /\ \E switch_seats \in BOOLEAN, n_rounds \in 1..NUM_ROUNDS :
          LET e == InitEngine([Config(TRUE, switch_seats, "None")
                                  EXCEPT !.NUM_ROUNDS = n_rounds])
          IN  /\ round_state = e.round_state
              /\ action = e.action
              /\ player = e.player
              /\ players = e.players
              /\ log = e.log
              /\ round_num = e.round_num
              /\ pc = e.pc
              /\ exception = e.exception
              /\ duplicate_file_iterator = e.duplicate_file_iterator
              /\ shuffles = e.shuffles
              /\ config = e.config
    /\ twin = NoTwin
    /\ kuhn_deck = NoDeck
    /\ files = NoFiles
    /\ bot = NoBot

StopSetup(p) ==
    /\ pc = IF p = 1 THEN "build_1" ELSE "build_2"
    /\ \E ran \in {"connected", "timeout", "run OSError"} :
          SetEngine(BuildAndRun(Engine, p, "ok", ran))
    /\ UNCHANGED <<twin, kuhn_deck, files, bot>>

StopRoundTurn ==
    /\ pc = "round"
    /\ IsRoundState(round_state)
    /\ \E io \in StopExchanges : SetEngine(RunRoundTurn(Engine, io))
    /\ UNCHANGED <<twin, kuhn_deck, files, bot>>

StopStep(seat) ==
    /\ pc = IF seat = 0 THEN "stopping" ELSE "stopped_0"
    /\ \E o \in StopOutcomes : SetEngine(StopPlayer(Engine, seat, o))
    /\ UNCHANGED <<twin, kuhn_deck, files, bot>>

\* Match.run, lines 669-678: the game log, and for (0, PLAYER_1_NAME) and
\* (1, PLAYER_2_NAME) the files <name>.msg.server.txt and
\* <name>.msg.player.txt, written from players[active].
WriteLogs(e) ==
    [written |-> TRUE,
     game |-> e.log,
     server |-> [name \in {1, 2} |-> e.player[e.players[name - 1]].message_log],
     player |-> [name \in {1, 2} |-> e.player[e.players[name - 1]].response_log]]

LogsWrite ==
    /\ pc = "stopped_1"
    /\ SetEngine([Engine EXCEPT !.pc = "done"])
    /\ files' = WriteLogs(Engine)
    /\ UNCHANGED <<twin, kuhn_deck, bot>>

NextStop ==
    \/ \E p \in {1, 2} : StopSetup(p)
    \/ RoundBegin
    \/ StopRoundTurn
    \/ RoundEnd
    \/ RoundsEnd
    \/ \E seat \in Seats : StopStep(seat)
    \/ LogsWrite

SpecStop == InitStop /\ [][NextStop]_vars

\* stop has returned for bot p.
Stopped(p) == player[p].steps # << >> /\ player[p].steps[Len(player[p].steps)] = "stdout"

\* C17: a timeout or socket error while the goodbye is sent or the socket
\* is closed does not leave stop: no exception ends the shutdown, and once
\* the stop of a seat is over that bot's subprocess was waited for and its
\* stdout log written, for both seats in turn.
C17_GoodbyeBestEffort ==
    /\ pc \in {"stopping", "stopped_0", "stopped_1", "aborted"} => exception = "None"
    /\ pc \in {"stopped_0", "stopped_1"} => Stopped(players[0])
    /\ pc = "stopped_1" => Stopped(players[1])

\* C18: when stop has returned, its steps were, in this order, the goodbye
\* and the close of the socket (for a connected bot), the wait for the
\* subprocess and, where that timed out, kill and reap (for a launched
\* bot), and the subprocess launched for the bot has been reaped.
C18_StopOrder ==
    \A p \in {1, 2} :
        Stopped(p) =>
            /\ \E waited \in {<<"wait">>, <<"wait", "kill", "reap">>} :
                  player[p].steps =
                      (IF player[p].socketfile THEN <<"goodbye", "close">> ELSE << >>)
                      \o (IF player[p].bot_subprocess THEN waited ELSE << >>)
                      \o <<"stdout">>
            /\ player[p].run \in {"connected", "timeout"} => player[p].process = "reaped"
            /\ player[p].run \notin {"connected", "timeout"} => player[p].process = "None"

\* A bot that was launched and never connected did not exit in time and
\* was killed and reaped.
C18_Witness ==
    \E p \in {1, 2} :
        /\ player[p].run = "timeout"
        /\ player[p].steps = <<"wait", "kill", "reap", "stdout">>
        /\ player[p].process = "reaped"
        /\ pc = "stopped_1"

(***************************************************************************)
(* Claims about the bookkeeping between the rounds of a match (Spec).      *)
(***************************************************************************)
\* C24: the step that ends a round adds deltas[i] of the round's
\* TerminalState to the bankroll of the player sitting at seat i, with or
\* without seat switching, and after every step the bankrolls of the two
\* players sum to zero.
C24_BankrollBySeat ==
    [][/\ (pc = "round" /\ pc' = "rounds") =>
              /\ IsTerminalState(round_state)
              /\ \A seat \in Seats :
                    player'[players[seat]].bankroll =
                        player[players[seat]].bankroll + round_state.deltas[seat]
       /\ player'[1].bankroll + player'[2].bankroll = 0]_vars

\* Two rounds were played with the seats switched in between, and player 1
\* won both of them.
C24_Witness ==
    /\ pc = "rounds"
    /\ round_num = 3
    /\ config.switch_seats
    /\ player[1].bankroll >= 2
    /\ player[2].bankroll = 0 - player[1].bankroll

\* C28: with switch_seats on, seat 0 is player 1 in the odd-numbered rounds
\* and player 2 in the even-numbered rounds; with switch_seats off, seat 0
\* is player 1 in every round.
C28_SeatToggle ==
    pc = "round" =>
        /\ players[0] = (IF config.switch_seats /\ round_num % 2 = 0 THEN 2 ELSE 1)
        /\ players[1] = 3 - players[0]

\* The second round of a match with switch_seats on is played with player 2
\* at seat 0.
C28_Witness ==
    /\ pc = "round"
    /\ round_num = 2
    /\ config.switch_seats
    /\ players = Pair(2, 1)
    /\ IsTerminalState(round_state)

\* C25: when a round is over, the messages appended for each bot in that
\* round are one info with new_game = true showing the bot's own card, one
\* action message per action of the round in the order taken, each tagged
\* with the seat that acted, the reveal info if and only if the pips ended
\* equal, and one payoff message; and the messages sent in the bot's
\* packets are, in order, the first of the messages appended for it.
C25_RoundMessageOrder ==
    (pc \in {"rounds", "stopping"} /\ IsTerminalState(round_state)) =>
        /\ \A p \in {1, 2} :
              LET msgs == RoundMessages(player[p].appended)
                  seat == msgs[1].seat
                  previous_state == round_state.previous_state
                  history == previous_state.action_history
                  code(a) == IF a = UpAction THEN "U" ELSE "D"
                  actions == [i \in 1..Len(history) |->
                                 ActionMessage(code(history[i]), (i - 1) % 2)]
                  reveal == IF previous_state.pips[0] = previous_state.pips[1]
                            THEN <<InfoMessage(seat, previous_state.hands, FALSE)>>
                            ELSE << >>
                  delivered == Flatten(player[p].message_log)
              IN  /\ msgs # << >>
                  /\ msgs = <<InfoMessage(seat, VisibleHands(previous_state, seat), TRUE)>>
                            \o actions \o reveal
                            \o <<PayoffMessage(round_state.deltas[seat])>>
                  /\ Len(delivered) <= Len(player[p].appended)
                  /\ delivered = SubSeq(player[p].appended, 1, Len(delivered))
        /\ RoundMessages(player[1].appended)[1].seat
               # RoundMessages(player[2].appended)[1].seat

\* A round of three actions that ended in a showdown is over, and a
\* connected bot was sent two packets in it.
C25_Witness ==
    /\ pc = "rounds"
    /\ IsTerminalState(round_state)
    /\ Len(round_state.previous_state.action_history) = 3
    /\ round_state.previous_state.pips[0] = round_state.previous_state.pips[1]
    /\ \E p \in {1, 2} :
          /\ player[p].socketfile
          /\ Len(player[p].message_log) = 2
          /\ Len(RoundMessages(player[p].appended)) = 6

(***************************************************************************)
(* SpecDeck: a KuhnDeck alone.  A deck is made of the default cards in any *)
(* order or of a line of the duplicate file; RoundState.new deals from it  *)
(* twice, and deal is called on it up to MaxDeals times.                   *)
(***************************************************************************)
MaxDeals == 4

\* What a line of the duplicate file parses to, lines with one card
\* included.
DeckLines == UNION {[1..n -> CardValues] : n \in 1..3}

\* KuhnDeck.deal, with the cards returned so far and the calls made.
Deal(k) ==
    IF DeckCanDeal(k.deck)
    THEN [k |-> [k EXCEPT !.deck = DeckAfterDeal(@),
                          !.dealt = Append(@, DeckCard(k.deck)),
                          !.calls = @ + 1],
          raised |-> "None"]
    ELSE [k |-> [k EXCEPT !.calls = @ + 1], raised |-> "ValueError"]

InitDeck ==
    /\ \E cards \in DefaultDecks \cup DeckLines :
          kuhn_deck = [used |-> TRUE, deck |-> NewDeck(cards), dealt |-> << >>, calls |-> 0]
    /\ round_state = NoneState
    /\ action = "None"
    /\ player = [p \in {1, 2} |-> NewPlayer(p)]
    /\ players = Pair(1, 2)
    /\ log = << >>
    /\ round_num = 1
    /\ pc = "deck"
    /\ exception = "None"
    /\ duplicate_file_iterator = ClosedIterator
    /\ shuffles = 0
    /\ config = Config(TRUE, TRUE, FALSE)
    /\ twin = NoTwin
    /\ files = NoFiles
    /\ bot = NoBot

\* RoundState.new, lines 162-175, on the deck just made: hands =
\* [deck.deal(), deck.deal()], then the RoundState.
DeckNew ==
    /\ pc = "deck"
    /\ kuhn_deck.calls = 0
    /\ LET first == Deal(kuhn_deck)
           second == Deal(first.k)
       IN  /\ kuhn_deck' = IF first.raised # "None" THEN first.k ELSE second.k
           /\ IF second.raised = "None"
              THEN /\ round_state' = RoundStateNew(kuhn_deck.deck)
                   /\ pc' = "dealt"
                   /\ UNCHANGED exception
              ELSE /\ exception' = "ValueError"
                   /\ pc' = "aborted"
                   /\ UNCHANGED round_state
    /\ UNCHANGED <<action, player, players, log, round_num, duplicate_file_iterator,
                   shuffles, config, twin, files, bot>>

\* One more deck.deal(), on a fresh deck or on the deck of the RoundState.
DeckDeal ==
    /\ pc \in {"deck", "dealt"}
    /\ kuhn_deck.calls < MaxDeals
    /\ LET r == Deal(kuhn_deck)
       IN  /\ kuhn_deck' = r.k
           /\ exception' = r.raised
           /\ pc' = IF r.raised = "None" THEN pc ELSE "aborted"
           /\ round_state' = IF pc = "dealt"
                             THEN [round_state EXCEPT !.deck = r.k.deck]
                             ELSE round_state
    /\ UNCHANGED <<action, player, players, log, round_num, duplicate_file_iterator,
                   shuffles, config, twin, files, bot>>

NextDeck == DeckNew \/ DeckDeal

SpecDeck == InitDeck /\ [][NextDeck]_vars

C30_HandsDiffer ==
    LET s == RoundNode(round_state)
    IN  s.hands[0] # s.hands[1]

(***************************************************************************)
(* Claims about the simultaneous-choice game (checked under Spec for what  *)
(* run_round sends, and under SpecRunner with the repository's bots).      *)
(***************************************************************************)
\* C22: the packet in which the second seat is asked for its action holds
\* no action message of the first seat; both actions of a round are sent
\* only after both were chosen.
C22_NoActionBeforeChoice ==
    [][(/\ pc = "round"
        /\ IsRoundState(round_state)
        /\ round_state.turn_number = 1) =>
        LET p == players[1]
            old == player[p].message_log
            new == player'[p].message_log
            packet == new[Len(new)]
        IN  new # old =>
                \A i \in DOMAIN packet :
                    ~(packet[i].type = "action" /\ packet[i].seat = 0)]_vars

(***************************************************************************)
(* Claims about the teardown (checked under SpecStop).                     *)
(***************************************************************************)
\* C23: when the logs are written, the raw protocol files under a bot's
\* name hold the packets sent to that bot and the replies read from it,
\* for every number of rounds and with switch_seats on or off.
C23_RawLogsByName ==
    pc = "done" =>
        \A name \in {1, 2} :
            /\ files.server[name] = player[name].message_log
            /\ files.player[name] = player[name].response_log

(***************************************************************************)
(* SpecRunner: the engine paired with the repository's bots                *)
(* (players/default: Runner over a socket).  The socket of bot p is the    *)
(* two queues bot[p].inbox (packets written by the engine, not yet read)   *)
(* and bot[p].outbox (reply lines written by the Runner, not yet read).    *)
(* query is taken in its two blocking halves: the write of the packet and  *)
(* the readline of the reply.                                              *)
(***************************************************************************)
\* Runner.send: the reply line of a bot that chose an action.  The bots of
\* the model choose rock or scissors (paper is sent and decoded the same
\* way).
RunnerVerbs == {"R", "S"}
RunnerSend(verb) == ReplyObject(Item(TRUE, "action", "dict", verb))

\* run_bot: the Runner of a bot that connected reads packets; a bot that
\* did not connect has no Runner.
NewRunner(connected) ==
    [pc |-> IF connected THEN "receive" ELSE "none",
     inbox |-> << >>, outbox |-> << >>,
     closed |-> FALSE,           \* the engine's end of the socket is closed
     read |-> 0,                 \* history: the packets read
     goodbyes |-> 0,             \* history: the packets read that held goodbye
     written |-> 0]              \* history: the reply lines written

HasGoodbye(packet) == \E i \in DOMAIN packet : packet[i].type = "goodbye"

\* Mutant: goodbye is handled like any other message (no return), so the
\* Runner replies to the goodbye packet too.
RunnerRunRepliesToGoodbye(self, verb) ==
    [self EXCEPT !.inbox = Tail(@),
                 !.read = @ + 1,
                 !.goodbyes = IF HasGoodbye(Head(self.inbox)) THEN @ + 1 ELSE @,
                 !.outbox = Append(@, RunnerSend(verb)),
                 !.written = @ + 1]

\* Runner.run, lines 54-103: one pass of the loop over the packets.  The
\* messages are handled in turn; goodbye returns from run; after the last
\* message the bot's action is sent.
RunnerRun(self, verb) ==
    LET packet == Head(self.inbox)
    IN  IF HasGoodbye(packet)
        THEN [self EXCEPT !.inbox = Tail(@), !.read = @ + 1, !.goodbyes = @ + 1,
                          !.pc = "returned"]
        ELSE [self EXCEPT !.inbox = Tail(@),
                          !.read = @ + 1,
                          !.outbox = Append(@, RunnerSend(verb)),
                          !.written = @ + 1]

\* The latencies of a reply that is read: at once, or after as long as the
\* whole game clock.
RunnerLatencies == {0, STARTING_GAME_CLOCK}

\* How stop goes for the bots of this specification: the goodbye is written,
\* or its write raises OSError or socket.timeout; the bot's process exits.
RunnerStopOutcomes ==
    {StopOutcome(Exchange(g, ReplyEmpty, 0), "ok", "exits") :
        g \in {"reply", "write_OSError", "write_timeout"}}

InitRunner ==
    /\ \E enforce \in BOOLEAN :
          LET e == InitEngine(Config(enforce, TRUE, "None"))
          IN  /\ round_state = e.round_state
              /\ action = e.action
              /\ player = e.player
              /\ players = e.players
              /\ log = e.log
              /\ round_num = e.round_num
              /\ pc = e.pc
              /\ exception = e.exception
              /\ duplicate_file_iterator = e.duplicate_file_iterator
              /\ shuffles = e.shuffles
              /\ config = e.config
    /\ twin = NoTwin
    /\ kuhn_deck = NoDeck
    /\ files = NoFiles
    /\ bot = [p \in {1, 2} |-> NewRunner(FALSE)]

\* Match.run, lines 653-655, and run_bot: the bot is built and launched and
\* connects, or does not connect in time.
RunnerSetup(p) ==
    /\ pc = IF p = 1 THEN "build_1" ELSE "build_2"
    /\ \E ran \in {"connected", "timeout"} :
          /\ SetEngine(BuildAndRun(Engine, p, "ok", ran))
          /\ bot' = [bot EXCEPT ![p] = NewRunner(ran = "connected")]
    /\ UNCHANGED <<twin, kuhn_deck, files>>

\* The bot whose turn it is, after send_round_state.
RunnerActive == players[round_state.turn_number % 2]
RunnerAsked == SendRoundState(Engine).player[RunnerActive]

\* query, lines 447-459: the packet is written and flushed; the engine then
\* blocks in readline.
RunnerQueryWrite ==
    /\ pc = "round"
    /\ IsRoundState(round_state)
    /\ QueryGuard(RunnerAsked, TRUE)
    /\ bot' = [bot EXCEPT ![RunnerActive].inbox = Append(@, Packet(RunnerAsked))]
    /\ SetEngine([Engine EXCEPT !.pc = "readline"])
    /\ UNCHANGED <<twin, kuhn_deck, files>>

\* query, lines 460-519, and the rest of the pass of run_round: readline
\* returns the bot's line after some latency, or times out with no line
\* there.
RunnerQueryRead ==
    /\ pc = "readline"
    /\ LET e == [Engine EXCEPT !.pc = "round"]
           b == bot[RunnerActive]
       IN  \/ /\ b.outbox # << >>
              /\ \E elapsed \in RunnerLatencies :
                    SetEngine(RunRoundTurn(e, Exchange("reply", Head(b.outbox), elapsed)))
              /\ bot' = [bot EXCEPT ![RunnerActive].outbox = Tail(@)]
           \/ /\ b.outbox = << >>
              /\ SetEngine(RunRoundTurn(e, Exchange("read_timeout", ReplyEmpty, 0)))
              /\ UNCHANGED bot
    /\ UNCHANGED <<twin, kuhn_deck, files>>

\* query, line 447 and line 519: a bot without a socket or without clock is
\* not written to; the pass of run_round goes on with the fallback.
RunnerNoQuery ==
    /\ pc = "round"
    /\ IsRoundState(round_state)
    /\ ~QueryGuard(RunnerAsked, TRUE)
    /\ SetEngine(RunRoundTurn(Engine, Exchange("reply", ReplyEmpty, 0)))
    /\ UNCHANGED <<twin, kuhn_deck, files, bot>>

\* Runner.run: the bot reads the next packet and chooses a verb.
RunnerStep(p) ==
    /\ bot[p].pc = "receive"
    /\ bot[p].inbox # << >>
    /\ \E verb \in RunnerVerbs : bot' = [bot EXCEPT ![p] = RunnerRun(@, verb)]
    /\ UNCHANGED <<round_state, action, player, players, log, round_num, pc, exception,
                   duplicate_file_iterator, shuffles, config, twin, kuhn_deck, files>>

\* Runner.receive, lines 24-26: readline returns '' at the end of the
\* stream and the loop over the packets ends.
RunnerEof(p) ==
    /\ bot[p].pc = "receive"
    /\ bot[p].inbox = << >>
    /\ bot[p].closed
    /\ bot' = [bot EXCEPT ![p].pc = "eof"]
    /\ UNCHANGED <<round_state, action, player, players, log, round_num, pc, exception,
                   duplicate_file_iterator, shuffles, config, twin, kuhn_deck, files>>

\* Match.run, lines 664-665: stop of the bot at a seat.  The goodbye packet
\* that was written reaches the bot's socket, and the socket is closed (by
\* close, or with the engine when an exception ends it).
RunnerStop(seat) ==
    /\ pc = IF seat = 0 THEN "stopping" ELSE "stopped_0"
    /\ \E o \in RunnerStopOutcomes :
          LET e == StopPlayer(Engine, seat, o)
              p == players[seat]
              sent == e.player[p].message_log
              written == /\ sent # player[p].message_log
                         /\ o.goodbye.outcome = "reply"
          IN  /\ SetEngine(e)
              /\ bot' = [q \in {1, 2} |->
                           IF q = p
                           THEN [bot[q] EXCEPT
                                   !.inbox = IF written THEN Append(@, sent[Len(sent)]) ELSE @,
                                   !.closed = player[p].socketfile]
                           ELSE IF e.exception # "None"
                           THEN [bot[q] EXCEPT !.closed = player[q].socketfile]
                           ELSE bot[q]]
    /\ UNCHANGED <<twin, kuhn_deck, files>>

NextRunner ==
    \/ \E p \in {1, 2} : RunnerSetup(p)
    \/ RoundBegin
    \/ RunnerQueryWrite
    \/ RunnerQueryRead
    \/ RunnerNoQuery
    \/ \E p \in {1, 2} : RunnerStep(p)
    \/ \E p \in {1, 2} : RunnerEof(p)
    \/ RoundEnd
    \/ RoundsEnd
    \/ \E seat \in Seats : RunnerStop(seat)

SpecRunner == InitRunner /\ [][NextRunner]_vars

(***************************************************************************)
(* Claims about the engine paired with the Runner (checked under           *)
(* SpecRunner).                                                            *)
(***************************************************************************)
\* C26: the Runner has written one reply line for every packet it read
\* that held no goodbye, and has returned, without a reply, on the packet
\* that held goodbye.  While the engine is blocked in readline on a bot,
\* that bot's Runner is running and exactly one line is on its way: the
\* packet not yet read, or the reply to it, and no older reply; no second
\* packet is written before the reply to the first, the goodbye packet
\* apart.  A Runner that waits for a packet the engine will not write has
\* the end of its stream to read.
C26_LockStep ==
    \A p \in {1, 2} :
        LET b == bot[p]
        IN  /\ b.written = b.read - b.goodbyes
            /\ b.goodbyes <= 1
            /\ b.goodbyes = 1 <=> b.pc = "returned"
            /\ Len(b.outbox) <= 1
            /\ \A i \in DOMAIN b.inbox : HasGoodbye(b.inbox[i]) \/ (i = 1 /\ b.outbox = << >>)
            /\ (pc = "readline" /\ RunnerActive = p) =>
                  /\ b.pc = "receive"
                  /\ Len(b.inbox) + Len(b.outbox) = 1
                  /\ b.inbox # << >> =>
                        /\ ~HasGoodbye(Head(b.inbox))
                        /\ Head(b.inbox) = Packet(RunnerAsked)
            /\ ((Stopped(p) \/ pc = "aborted") /\ b.pc = "receive" /\ b.inbox = << >>) =>
                  b.closed

\* Both bots played the whole match in step with the engine: each read a
\* packet per query and the goodbye packet, replied to all but the last and
\* returned.
C26_Witness ==
    /\ pc = "stopped_1"
    /\ \A p \in {1, 2} :
          /\ bot[p].pc = "returned"
          /\ bot[p].read = NUM_ROUNDS + 1
          /\ bot[p].written = NUM_ROUNDS
          /\ Len(player[p].response_log) = NUM_ROUNDS
          /\ bot[p].outbox = << >>

\* The table C21 states, for seat 0 playing a and seat 1 playing b: rock
\* beats scissors, scissors beats paper, paper beats rock.  No code under
\* src/ computes it; it is the right-hand side of C21 only.
RpsBeats(a, b) == <<a, b>> \in {<<"R", "S">>, <<"S", "P">>, <<"P", "R">>}
RpsDeltas(a, b) ==
    IF a = b THEN Pair(0, 0)
    ELSE IF RpsBeats(a, b) THEN Pair(1, -1)
    ELSE Pair(-1, 1)

\* C21: when a round is over in which both bots were asked and answered in
\* time, its deltas are those of the cyclic-dominance table over the verbs
\* the two seats sent (rock against scissors [+1, -1], equal verbs [0, 0]),
\* and the verbs R, P and S were accepted: the actions broadcast for the
\* round are the two verbs sent.
C21_CyclicDominance ==
    (/\ pc = "round"
     /\ IsTerminalState(round_state)
     /\ \A p \in {1, 2} :
           /\ player[p].socketfile
           /\ player[p].game_clock > 0
           /\ Len(player[p].response_log) = round_num) =>
        LET verb(seat) ==
                LET replies == player[players[seat]].response_log
                IN  replies[Len(replies)].items[1].verb
            msgs == RoundMessages(player[1].appended)
            actions == {i \in DOMAIN msgs : msgs[i].type = "action"}
        IN  /\ round_state.deltas = RpsDeltas(verb(0), verb(1))
            /\ \A i \in actions : msgs[i].verb = verb(msgs[i].seat)

(***************************************************************************)
(* SpecReader: one bot's subprocess, its stdout pipe and the thread that   *)
(* Player.run starts to drain it, beside the control thread that launches  *)
(* the bot, accepts its connection, queries it and stops it.  The bot      *)
(* prints before it connects and before each reply; a print blocks while   *)
(* the pipe is full.                                                       *)
(***************************************************************************)
\* The lines the pipe of the operating system holds, and the lines a bot
\* prints in a run of the model.
PipeCapacity == 2
MaxOutput == 3

\* Mutant: the thread is made and never started.
PopenNoReader(capture, todo) ==
    [capture |-> capture, process |-> "running", program |-> "start",
     todo |-> todo, left |-> MaxOutput - todo, pipe |-> 0, stdout |-> "open",
     reader |-> "none", bytes_queue |-> 0, asked |-> FALSE, replied |-> FALSE]

\* Player.run, lines 374-393: Popen, with stdout and stderr piped when
\* capture is set, and the start of the thread that runs enqueue_output.
\* todo: the lines the bot prints before its next step; left: the lines it
\* may print after those.
Popen(capture, todo) ==
    [capture |-> capture, process |-> "running", program |-> "start",
     todo |-> todo, left |-> MaxOutput - todo, pipe |-> 0, stdout |-> "open",
     reader |-> IF capture THEN "running" ELSE "none",
     bytes_queue |-> 0, asked |-> FALSE, replied |-> FALSE]

InitReader ==
    /\ \E enforce \in BOOLEAN :
          LET e == InitEngine(Config(enforce, TRUE, "None"))
          IN  /\ round_state = e.round_state
              /\ action = e.action
              /\ player = [e.player EXCEPT ![1] = Build(@, "ok")]
              /\ players = e.players
              /\ log = e.log
              /\ round_num = e.round_num
              /\ pc = "run"
              /\ exception = e.exception
              /\ duplicate_file_iterator = e.duplicate_file_iterator
              /\ shuffles = e.shuffles
              /\ config = e.config
    /\ twin = NoTwin
    /\ kuhn_deck = NoDeck
    /\ files = NoFiles
    /\ bot = NoBot

\* The control thread moves to pc2 with Player 1 as self2.
ReaderControl(self2, pc2) ==
    /\ player' = [player EXCEPT ![1] = self2]
    /\ pc' = pc2
    /\ UNCHANGED <<round_state, action, players, log, round_num, exception,
                   duplicate_file_iterator, shuffles, config, twin, kuhn_deck, files>>

ReaderIdle ==
    UNCHANGED <<round_state, action, player, players, log, round_num, pc, exception,
                duplicate_file_iterator, shuffles, config, twin, kuhn_deck, files>>

\* Player.run, lines 374-396: the bot is launched and the control thread
\* blocks in accept.
ReaderLaunch ==
    /\ pc = "run"
    /\ \E capture \in BOOLEAN, todo \in 0..MaxOutput : bot' = Popen(capture, todo)
    /\ ReaderControl([player[1] EXCEPT !.bot_subprocess = TRUE, !.process = "running"],
                     "accept")

\* The bot prints a line: to the pipe when it has room, or to the stdout it
\* inherited.
BotPrint ==
    /\ pc # "run"
    /\ bot.process = "running"
    /\ bot.todo > 0
    /\ bot.capture => bot.pipe < PipeCapacity
    /\ bot' = [bot EXCEPT !.todo = @ - 1,
                          !.pipe = IF bot.capture THEN @ + 1 ELSE @]
    /\ ReaderIdle

\* run_bot: the bot, done printing, connects.
BotConnect ==
    /\ pc # "run"
    /\ bot.process = "running"
    /\ bot.program = "start"
    /\ bot.todo = 0
    /\ \E todo \in 0..bot.left :
          bot' = [bot EXCEPT !.program = "connected", !.todo = todo, !.left = @ - todo]
    /\ ReaderIdle

\* Runner.run: the bot, done printing, replies to the packet it was sent.
BotReply ==
    /\ pc # "run"
    /\ bot.process = "running"
    /\ bot.program = "connected"
    /\ bot.asked
    /\ bot.todo = 0
    /\ \E todo \in 0..bot.left :
          bot' = [bot EXCEPT !.asked = FALSE, !.replied = TRUE,
                             !.todo = todo, !.left = @ - todo]
    /\ ReaderIdle

\* enqueue_output: the thread takes a line from the pipe and puts it in
\* bytes_queue.
ReaderDrain ==
    /\ pc # "run"
    /\ bot.reader = "running"
    /\ bot.pipe > 0
    /\ bot' = [bot EXCEPT !.pipe = @ - 1, !.bytes_queue = @ + 1]
    /\ ReaderIdle

\* enqueue_output: the stream is at its end and the thread returns.
ReaderEnd ==
    /\ pc # "run"
    /\ bot.reader = "running"
    /\ bot.stdout = "closed"
    /\ bot.pipe = 0
    /\ bot' = [bot EXCEPT !.reader = "done"]
    /\ ReaderIdle

\* Player.run, lines 396-402 and 407-408: accept returns the bot's
\* connection, or times out.
ReaderAccept ==
    /\ pc = "accept"
    /\ \/ /\ bot.program = "connected"
          /\ ReaderControl(Connected([player[1] EXCEPT !.run = "connected"]), "query")
       \/ /\ bot.program = "start"
          /\ ReaderControl([player[1] EXCEPT !.run = "timeout"], "stop")
    /\ UNCHANGED bot

\* query: the packet is written and the control thread blocks in readline.
ReaderQueryWrite ==
    /\ pc = "query"
    /\ Len(player[1].message_log) < MaxQueries
    /\ bot' = [bot EXCEPT !.asked = TRUE, !.replied = FALSE]
    /\ ReaderControl(AfterPacket(player[1]), "readline")

\* query: readline returns the bot's line, or times out and the bot's clock
\* is set to 0.
ReaderQueryRead ==
    /\ pc = "readline"
    /\ \/ /\ bot.replied
          /\ ReaderControl([player[1] EXCEPT !.response_log = Append(@, ReplyObject(ItemD))],
                           "query")
       \/ /\ ~bot.replied
          /\ ReaderControl([player[1] EXCEPT !.game_clock = 0], "stop")
    /\ UNCHANGED bot

\* The queries of the match are over.
ReaderQueriesEnd ==
    /\ pc = "query"
    /\ Len(player[1].message_log) = MaxQueries
    /\ ReaderControl(player[1], "stop")
    /\ UNCHANGED bot

\* Player.stop, lines 423-431: communicate reads what is left in the pipe
\* until the subprocess, which exits or is killed, has closed it.
ReaderStop ==
    /\ pc = "stop"
    /\ bot' = [bot EXCEPT !.process = "reaped", !.stdout = "closed",
                          !.bytes_queue = @ + bot.pipe, !.pipe = 0]
    /\ ReaderControl([player[1] EXCEPT !.process = "reaped"], "stopped")

NextReader ==
    \/ ReaderLaunch
    \/ BotPrint
    \/ BotConnect
    \/ BotReply
    \/ ReaderDrain
    \/ ReaderEnd
    \/ ReaderAccept
    \/ ReaderQueryWrite
    \/ ReaderQueryRead
    \/ ReaderQueriesEnd
    \/ ReaderStop

\* The thread that runs enqueue_output is scheduled like any thread: when
\* it can take a line, it does.  Nothing is assumed of the control thread or
\* of the bot.
SpecReader == InitReader /\ [][NextReader]_vars /\ WF_vars(ReaderDrain)

\* The subprocess is blocked in a write to its full output pipe.
BotBlocked ==
    /\ pc # "run"
    /\ bot.process = "running"
    /\ bot.capture
    /\ bot.todo > 0
    /\ bot.pipe = PipeCapacity

\* C27: while the subprocess runs with its output piped, the reader thread
\* is running, whatever the control thread is blocked on; and a subprocess
\* blocked on a full output pipe is unblocked, by the reader alone, however
\* long the control thread waits in accept or readline.
C27_ReaderDrains ==
    /\ []((pc # "run" /\ bot.process = "running" /\ bot.capture) => bot.reader = "running")
    /\ (BotBlocked ~> ~BotBlocked)

\* The control thread waits in readline for the reply of a bot that is
\* blocked on its full pipe; the reader is running.
C27_Witness ==
    /\ pc = "readline"
    /\ BotBlocked
    /\ ~bot.replied
    /\ bot.reader = "running"

(***************************************************************************)
(* Claims about the turns of a round (checked under Spec).                 *)
(***************************************************************************)
\* C31: a pass of the loop of run_round on a RoundState queries one player,
\* the one at seat turn_number mod 2, and no other: the engine's exchange
\* (at most one packet written, at most one reply read, the reply after the
\* packet) is with that player and the other player's logs and clock are
\* untouched.  The action broadcast is tagged with that seat and the next
\* node has turn_number one higher, so the seats queried in a round are 0,
\* 1, 0 in this order.  query is a blocking call of the control thread, so a
\* query is over before the next is made.
C31_TurnsAlternate ==
    [][(pc = "round" /\ IsRoundState(round_state)) =>
        LET s == round_state
            active == s.turn_number % 2
            p == players[active]
            q == players[1 - active]
            node == IF IsTerminalState(round_state')
                    THEN round_state'.previous_state ELSE round_state'
            packets == Len(player'[p].message_log) - Len(player[p].message_log)
            replies == Len(player'[p].response_log) - Len(player[p].response_log)
        IN  /\ s.turn_number = Len(s.action_history)
            /\ active = IF s.turn_number = 1 THEN 1 ELSE 0
            /\ player'[q].message_log = player[q].message_log
            /\ player'[q].response_log = player[q].response_log
            /\ player'[q].game_clock = player[q].game_clock
            /\ packets \in {0, 1}
            /\ replies \in {0, 1}
            /\ replies <= packets
            /\ packets = 1 <=>
                  (vars' # vars /\ player[p].socketfile /\ player[p].game_clock > 0)
            /\ (vars' # vars /\ pc' = "round") =>
                  /\ node.turn_number = s.turn_number + 1
                  /\ node.action_history = Append(s.action_history, action')
                  /\ \A x \in {1, 2} :
                        LET a == player'[x].appended
                        IN  /\ a[Len(a)].type = "action"
                            /\ a[Len(a)].seat = active]_vars

\* A round of three actions between two connected bots is over: the player
\* at seat 0 was sent two packets and the player at seat 1 one.
C31_Witness ==
    /\ pc = "round"
    /\ round_num = 1
    /\ IsTerminalState(round_state)
    /\ round_state.previous_state.turn_number = 3
    /\ Len(player[players[0]].message_log) = 2
    /\ Len(player[players[1]].message_log) = 1
    /\ Len(player[players[0]].response_log) = 2
    /\ Len(player[players[1]].response_log) = 1

(***************************************************************************)
(* Claims about the game clock (checked under SpecQuery: query is the only *)
(* code that writes game_clock after Player.__init__).                     *)
(***************************************************************************)
\* C32: over every call of query a bot's game_clock does not increase and
\* is not negative afterwards.  An exchange that read a reply lowers the
\* clock by the elapsed time when the clock is enforced, a result at or
\* below zero being set to zero, and leaves it alone when it is not
\* enforced; a clock at zero stays at zero.
C32_ClockNeverRises ==
    [][\A p \in {1, 2} :
        LET before == player[p].game_clock
            after == player'[p].game_clock
            elapsed == player'[p].latency - player[p].latency
            replied == Len(player'[p].response_log) > Len(player[p].response_log)
        IN  /\ after <= before
            /\ after >= 0
            /\ before = 0 => after = 0
            /\ (replied /\ config.ENFORCE_GAME_CLOCK) =>
                  after = IF before - elapsed > 0 THEN before - elapsed ELSE 0
            /\ (replied /\ ~config.ENFORCE_GAME_CLOCK) => after = before
            /\ ~replied => after \in {before, 0}]_vars

\* A reply came later than the whole clock: the charge took the clock below
\* zero and the query returned with the clock at zero.
C32_Witness ==
    /\ pc = "queried"
    /\ Len(player[1].response_log) = 1
    /\ player[1].latency = STARTING_GAME_CLOCK + 1
    /\ player[1].game_clock = 0

(***************************************************************************)
(* SpecLog: the captured output of one bot.  bytes_queue receives the      *)
(* output of the build command, the lines the reader thread drains while   *)
(* the bot runs, and what communicate() returns when the bot is stopped;   *)
(* stop then writes the queue to the bot's stdout log.  An element of the  *)
(* queue is a bytes object of some length, or None (nothing was piped).    *)
(***************************************************************************)
\* PLAYER_LOG_SIZE_LIMIT (config.py), the longest bytes object of the model
\* and the lines the reader drains in a run, in the model's unit of length.
PLAYER_LOG_SIZE_LIMIT == 3
MaxChunk == 4
MaxLines == 2

Bytes(n) == [bytes |-> TRUE, len |-> n]
NoneOutput == [bytes |-> FALSE, len |-> 0]

\* proc.stdout, timeout_expired.stdout and outs: bytes when the output is
\* piped (capture), else None.
Captured(capture) ==
    IF capture THEN {Bytes(n) : n \in 0..MaxChunk} ELSE {NoneOutput}

\* Lines 433-440 of stop: the loop over bytes_queue.queue.  write(None)
\* raises TypeError, which is passed over; the limit is looked at after a
\* write.
RECURSIVE StdoutLog(_, _)
StdoutLog(queue, bytes_written) ==
    IF queue = << >> THEN bytes_written
    ELSE IF ~Head(queue).bytes THEN StdoutLog(Tail(queue), bytes_written)
    ELSE LET written == bytes_written + Head(queue).len
         IN  IF written >= PLAYER_LOG_SIZE_LIMIT THEN written
             ELSE StdoutLog(Tail(queue), written)

InitLog ==
    /\ round_state = NoneState
    /\ action = "None"
    /\ player = [p \in {1, 2} |-> NewPlayer(p)]
    /\ players = Pair(1, 2)
    /\ log = InitialLog
    /\ round_num = 1
    /\ pc = "build"
    /\ exception = "None"
    /\ duplicate_file_iterator = ClosedIterator
    /\ shuffles = 0
    /\ config = Config(TRUE, TRUE, "None")
    /\ twin = NoTwin
    /\ kuhn_deck = NoDeck
    /\ files = NoFiles
    /\ \E capture \in BOOLEAN :
          bot = [capture |-> capture, bytes_queue |-> << >>, lines |-> 0]

LogIdle ==
    UNCHANGED <<round_state, action, player, players, log, round_num, exception,
                duplicate_file_iterator, shuffles, config, twin, kuhn_deck>>

\* Player.build, lines 339-360: the build command's output is put in the
\* queue; after a timeout, what was read of it and the error message; a
\* build that is not run or cannot be spawned puts nothing.
LogBuild ==
    /\ pc = "build"
    /\ \/ \E out \in Captured(bot.capture) :
             bot' = [bot EXCEPT !.bytes_queue = Append(@, out)]
       \/ \E out \in Captured(bot.capture) \cup {NoneOutput} :
             bot' = [bot EXCEPT !.bytes_queue = @ \o <<out, Bytes(1)>>]
       \/ UNCHANGED bot
    /\ pc' = "run"
    /\ UNCHANGED files
    /\ LogIdle

\* enqueue_output, lines 388-389: a line of the bot's output is put in the
\* queue.
LogLineDrained ==
    /\ pc = "run"
    /\ bot.capture
    /\ bot.lines < MaxLines
    /\ \E n \in 1..MaxChunk :
          bot' = [bot EXCEPT !.bytes_queue = Append(@, Bytes(n)), !.lines = @ + 1]
    /\ UNCHANGED <<pc, files>>
    /\ LogIdle

\* Player.stop, lines 423-431: communicate() returns the rest of the output
\* of a bot that was launched, and it is put in the queue.
LogCommunicate ==
    /\ pc = "run"
    /\ \/ \E outs \in Captured(bot.capture) :
             bot' = [bot EXCEPT !.bytes_queue = Append(@, outs)]
       \/ UNCHANGED bot
    /\ pc' = "write"
    /\ UNCHANGED files
    /\ LogIdle

\* Player.stop, lines 432-440: the stdout log is written.
LogStdoutWrite ==
    /\ pc = "write"
    /\ files' = [written |-> TRUE, stdout |-> StdoutLog(bot.bytes_queue, 0)]
    /\ pc' = "written"
    /\ UNCHANGED bot
    /\ LogIdle

NextLog ==
    \/ LogBuild
    \/ LogLineDrained
    \/ LogCommunicate
    \/ LogStdoutWrite

SpecLog == InitLog /\ [][NextLog]_vars

\* C33: the stdout log stop has written holds at most PLAYER_LOG_SIZE_LIMIT
\* bytes, whatever was put in bytes_queue.
C33_LogSizeCapped ==
    files.written => files.stdout <= PLAYER_LOG_SIZE_LIMIT

(***************************************************************************)
(* Claims about the queue of captured output (checked under SpecReader).   *)
(***************************************************************************)
\* C34: the number of chunks held in bytes_queue stays under a fixed limit
\* however many lines the bot prints: in particular a bot that prints more
\* lines than the limit (in the model, MaxOutput lines) never has all of
\* them in the queue.
C34_QueueBounded ==
    "bytes_queue" \in DOMAIN bot => bot.bytes_queue < MaxOutput

(***************************************************************************)
(* Claims about the actions query accepts (checked under Spec).            *)
(***************************************************************************)
\* C35: at every RoundState a match reaches, both actions a reply can
\* decode to are legal, and no query of the match has logged an attempted
\* illegal action.
C35_NoIllegalAction ==
    /\ (pc = "round" /\ IsRoundState(round_state)) =>
          {UpAction, DownAction} \subseteq QueryLegalActions(round_state)
    /\ \A i \in DOMAIN log :
          log[i].text \notin {"attempted illegal " \o UpAction,
                              "attempted illegal " \o DownAction}

\* A round in which replies decoded to DownAction and to UpAction at each
\* of the three turns were taken as sent.
C35_Witness ==
    /\ pc = "round"
    /\ IsTerminalState(round_state)
    /\ round_state.previous_state.action_history = <<DownAction, UpAction, UpAction>>
    /\ \A p \in {1, 2} :
          /\ player[p].response_log # << >>
          /\ \A i \in DOMAIN player[p].response_log :
                player[p].response_log[i] \in {ReplyObject(ItemU), ReplyObject(ItemD)}
    /\ \A i \in DOMAIN log : log[i].text # "did not respond"

(***************************************************************************)
(* Claims about the fallback action (checked under SpecRound, over every   *)
(* deal and every sequence of actions).                                    *)
(***************************************************************************)
\* C36: the action query falls back to is DownAction at every RoundState,
\* and a seat all of whose actions in a round were DownAction ends the
\* round with a delta of at least -ANTE.
C36_FallbackLosesAnteAtMost ==
    /\ IsRoundState(round_state) =>
          Fallback(QueryLegalActions(round_state)) = DownAction
    /\ IsTerminalState(round_state) =>
          LET history == round_state.previous_state.action_history
          IN  \A seat \in Seats :
                (\A i \in DOMAIN history :
                    (i - 1) % 2 = seat => history[i] = DownAction) =>
                    round_state.deltas[seat] >= -ANTE

\* Seat 0 held the higher card, checked and folded to the bet: it lost its
\* ante and no more; seat 1, which bet, won it.
C36_Witness ==
    /\ IsTerminalState(round_state)
    /\ round_state.previous_state.action_history = <<DownAction, UpAction, DownAction>>
    /\ round_state.previous_state.hands[0] > round_state.previous_state.hands[1]
    /\ round_state.deltas = Pair(-ANTE, ANTE)

(***************************************************************************)
(* Claims about a query that is not attempted (checked under Spec).        *)
(***************************************************************************)
\* The lines query appends to the game log.
FaultTexts ==
    {"ran out of time", "disconnected", "did not respond", "misformatted",
     "attempted illegal " \o UpAction, "attempted illegal " \o DownAction}

\* C37: in a pass of the loop of run_round whose active bot has no socket
\* or no game clock left, query changes nothing: the bot's message_log,
\* response_log and game_clock are as before, the messages queued for it
\* are all still queued (the pass only appends to them), no fault line is
\* added to the game log, nothing is raised and the action is the fallback
\* DownAction.
C37_SkippedQueryChangesNothing ==
    [][(/\ pc = "round"
        /\ IsRoundState(round_state)
        /\ LET self == player[players[round_state.turn_number % 2]]
           IN  ~self.socketfile \/ self.game_clock <= 0
        /\ vars' # vars) =>
        LET p == players[round_state.turn_number % 2]
            self == player[p]
            after == player'[p]
            n == Len(self.messages)
        IN  /\ after.message_log = self.message_log
            /\ after.response_log = self.response_log
            /\ after.game_clock = self.game_clock
            /\ after.latency = self.latency
            /\ Len(after.messages) > n
            /\ SubSeq(after.messages, 1, n) = self.messages
            /\ Len(log') > Len(log)
            /\ SubSeq(log', 1, Len(log)) = log
            /\ \A i \in (Len(log) + 1) .. Len(log') : log'[i].text \notin FaultTexts
            /\ exception' = "None"
            /\ action' = DownAction]_vars

\* A bot that never connected has been the active seat in two rounds: the
\* messages of both rounds are still queued and nothing was sent to it.
C37_Witness ==
    /\ pc = "round"
    /\ round_num = 2
    /\ IsTerminalState(round_state)
    /\ \E p \in {1, 2} :
          /\ ~player[p].socketfile
          /\ player[p].message_log = << >>
          /\ Len(player[p].messages) >= 8
          /\ player[p].messages[1] = TimeMessage(30)

(***************************************************************************)
(* Claims about the nodes the match loop works on (checked under Spec).    *)
(***************************************************************************)
\* C38: every RoundState the loop of run_round passes to send_round_state,
\* query and proceed is on street 0, has turn_number 0, 1 or 2 and as many
\* actions in its history as its turn_number; the branch of
\* send_round_state for a later street is never taken (it would raise) and
\* the assertion of proceed never fails.
C38_LoopNodes ==
    /\ (pc = "round" /\ IsRoundState(round_state)) =>
          /\ round_state.street = 0
          /\ round_state.turn_number \in {0, 1, 2}
          /\ Len(round_state.action_history) = round_state.turn_number
          /\ ~(round_state.street > 0 /\ round_state.turn_number = 1)
          /\ Proceed(round_state, DownAction).kind # "AssertionError"
    /\ round_state.kind \in {"None", "RoundState", "TerminalState"}
    /\ exception \notin {"AttributeError", "AssertionError"}

\* The loop is at the node after check and bet, the deepest it works on.
C38_Witness ==
    /\ pc = "round"
    /\ IsRoundState(round_state)
    /\ round_state.turn_number = 2
    /\ round_state.action_history = <<DownAction, UpAction>>
    /\ round_state.street = 0

(***************************************************************************)
(* SpecParse: one query of a connected bot whose reply line is a JSON      *)
(* array of up to MaxItems elements, each any of Items.                    *)
(***************************************************************************)
\* The longest array a reply line of SpecParse holds.
MaxItems == 3

ItemArrays == UNION {[1..n -> Items] : n \in 0..MaxItems}

InitParse ==
    /\ round_state = RoundStateNew(NewDeck(<<2, 0, 1>>))
    /\ action = "None"
    /\ player = [p \in {1, 2} |-> IF p = 1 THEN Connected(NewPlayer(p)) ELSE NewPlayer(p)]
    /\ players = Pair(1, 2)
    /\ log = InitialLog
    /\ round_num = 1
    /\ pc = "query"
    /\ exception = "None"
    /\ duplicate_file_iterator = ClosedIterator
    /\ shuffles = 0
    /\ config = Config(TRUE, TRUE, "None")
    /\ twin = NoTwin
    /\ kuhn_deck = NoDeck
    /\ files = NoFiles
    /\ bot = NoBot

\* action = player.query(round_state, self.log), the bot replying at once
\* with the array `items`.
ParseStep(items) ==
    /\ pc = "query"
    /\ LET r == Query(player[1], round_state, log, TRUE,
                      Exchange("reply", ReplyArray(items), 0),
                      config.ENFORCE_GAME_CLOCK)
       IN  /\ player' = [player EXCEPT ![1] = r.self]
           /\ log' = r.log
           /\ action' = r.ret
           /\ exception' = r.raised
           /\ pc' = IF r.raised = "None" THEN "queried" ELSE "aborted"
    /\ UNCHANGED <<round_state, players, round_num, duplicate_file_iterator,
                   shuffles, config, twin, kuhn_deck, files, bot>>

NextParse == \E items \in ItemArrays : ParseStep(items)

SpecParse == InitParse /\ [][NextParse]_vars

\* C39: when every element of the reply's array is a message (an object
\* that is an action with a known verb, or has an unknown type, an unknown
\* verb or a missing field), query raises nothing and uses the action of
\* the last element that is an action with verb U or D, whatever stands
\* before, between and after; with no such element the bot did not respond
\* and the fallback is used.
C39_LastRecognizedAction ==
    pc \in {"queried", "aborted"} =>
        LET items == player[1].response_log[1].items
            recognized == {i \in DOMAIN items :
                              /\ items[i].obj
                              /\ items[i].type = "action"
                              /\ items[i].act = "dict"
                              /\ items[i].verb \in {"U", "D"}}
            last == CHOOSE i \in recognized : \A j \in recognized : j <= i
            messages_only == \A i \in DOMAIN items :
                                /\ items[i].obj
                                /\ items[i].act \in {"dict", "absent"}
            silent == \E i \in DOMAIN log : log[i].text = "did not respond"
        IN  messages_only =>
                /\ pc = "queried"
                /\ exception = "None"
                /\ recognized # {} =>
                      /\ action = IF items[last].verb = "U" THEN UpAction ELSE DownAction
                      /\ ~silent
                /\ recognized = {} => (action = DownAction /\ silent)

\* Up was recognized first and was followed by a hello, a bad verb and a
\* message without a verb: Up is the action.
C39_Witness ==
    /\ pc = "queried"
    /\ player[1].response_log = <<ReplyArray(<<ItemU, ItemR, ItemNoVerb>>)>>
    /\ action = UpAction

(***************************************************************************)
(* Claims about the delivery of queued messages (checked under SpecStop).  *)
(***************************************************************************)
\* Bot p connected and neither ran out of clock nor had a socket fault, in a
\* query or in the write of its goodbye.
NeverFaulted(p) ==
    /\ player[p].socketfile
    /\ player[p].game_clock > 0
    /\ \A i \in DOMAIN log : log[i].name = p => log[i].text \notin FaultTexts
    /\ player[p].steps # <<"goodbye">>

\* C40: for a bot that connected and never faulted, every message appended
\* is in exactly one packet or still queued, in the order of the appends;
\* the queue never holds the payoffs of two rounds (what a round queued
\* went out by the bot's first query of the next round); and once the
\* control thread is done, or stop has returned for the bot, nothing is
\* queued: the messages of the last round went out with goodbye.
C40_QueuedMessagesSent ==
    \A p \in {1, 2} :
        NeverFaulted(p) =>
            LET queue == Tail(player[p].messages)
                payoffs == {i \in DOMAIN queue : queue[i].type = "payoff"}
                packets == player[p].message_log
            IN  /\ Flatten(packets) \o queue = player[p].appended
                /\ Cardinality(payoffs) <= 1
                /\ (pc \in {"done", "aborted"} \/ Stopped(p)) =>
                      /\ queue = << >>
                      /\ packets # << >>
                      /\ HasGoodbye(packets[Len(packets)])

====
